---- MODULE Spec2Model ----
(***************************************************************************)
(* Memristor simulation engine: the adaptive Dormand-Prince integrator     *)
(* (engine/solver.ts), the simulation orchestrator simulate,               *)
(* the device models, the input signals and the window functions.          *)
(*                                                                         *)
(* The program computes on IEEE-754 doubles.  The model computes on a      *)
(* decimal floating-point format of the same structure and smaller width:  *)
(* a finite number is <<m, e>> = m * 10^e with an 8-digit mantissa         *)
(* (MantMin <= |m| < MantMax, or m = 0), every operation rounds its exact  *)
(* result to nearest (ties to even), results beyond the exponent range     *)
(* overflow to +/-Infinity or underflow to 0, and NaN and the infinities   *)
(* propagate as in IEEE-754.                                               *)
(***************************************************************************)
EXTENDS Integers, Sequences, FiniteSets, TLC

\* ------------------------------------------------------------------------
\* Number format
\* ------------------------------------------------------------------------
Limb    == 10^4
MantMax == 10^8
MantMin == 10^7
MaxExp  == 301
MinExp  == -(MaxExp + 30)
SpecialExp == MaxExp + 1000

NaN    == <<0, SpecialExp>>
PosInf == <<1, SpecialExp>>
NegInf == <<-1, SpecialExp>>
Zero   == <<0, 0>>

Sgn(n)  == IF n > 0 THEN 1 ELSE IF n < 0 THEN -1 ELSE 0
IAbs(n) == IF n < 0 THEN -n ELSE n

IsNaN(a)    == a[1] = 0 /\ a[2] = SpecialExp
IsInf(a)    == a[1] # 0 /\ a[2] = SpecialExp
IsFinite(a) == a[2] # SpecialExp
IsZero(a)   == a[1] = 0 /\ a[2] # SpecialExp
Inf(s)      == IF s < 0 THEN NegInf ELSE PosInf

\* a quotient q with twice its remainder r2 over the divisor d, rounded to
\* nearest, ties to even
RoundHalfEven(q, r2, d) ==
  IF r2 > d \/ (r2 = d /\ q % 2 = 1) THEN q + 1 ELSE q

\* n \div d rounded to nearest, ties to even (n >= 0, d > 0)
RoundDiv(n, d) == RoundHalfEven(n \div d, 2 * (n % d), d)

\* the number m * 10^e for a signed mantissa with MantMin <= |m| < MantMax
PackExp(m, e) ==
  IF e > MaxExp THEN Inf(m) ELSE IF e < MinExp THEN Zero ELSE <<m, e>>

\* the number s * q * 10^e for a mantissa q already in [MantMin, MantMax]
Pack(s, q, e) ==
  PackExp(IF q = MantMax THEN s * MantMin ELSE s * q,
          IF q = MantMax THEN e + 1 ELSE e)

\* s * (q + r2 / (2 * d)) * 10^e rounded to the format
PackRound(s, q, r2, d, e) == Pack(s, RoundHalfEven(q, r2, d), e)

\* the number s * n * 10^e rounded to the format (0 <= n < 2^31)
RECURSIVE Norm(_, _, _)
Norm(s, n, e) ==
  IF n = 0 THEN Zero
  ELSE IF n >= 10 * MantMax THEN Norm(s, RoundDiv(n, 100), e + 2)
  ELSE IF n >= MantMax THEN Norm(s, RoundDiv(n, 10), e + 1)
  ELSE IF n < MantMin THEN Norm(s, n * 10, e - 1)
  ELSE PackExp(s * n, e)

\* integer and decimal literals
I(n)      == Norm(Sgn(n), IAbs(n), 0)
Dec(m, e) == Norm(Sgn(m), IAbs(m), e)

FNeg(a) == <<-a[1], a[2]>>
FAbs(a) == <<IAbs(a[1]), a[2]>>

RECURSIVE NumDigits(_)
NumDigits(n) == IF n < 10 THEN 1 ELSE 1 + NumDigits(n \div 10)

\* s * (hi * MantMax + lo) * 10^e rounded to the format
\* (0 <= hi < MantMax, 0 <= lo < MantMax): the digits below the unit 10^k
\* are rounded away, k being the number of digits of hi
RoundUnit(s, hi, lo, e, unit) ==
  PackRound(s, hi * (MantMax \div unit) + lo \div unit, 2 * (lo % unit), unit, e)
RoundDigits(s, hi, lo, e, k) == RoundUnit(s, hi, lo, e + k, 10^k)
RoundPair(s, hi, lo, e) ==
  IF hi = 0 THEN Norm(s, lo, e)
  ELSE RoundDigits(s, hi, lo, e, IF hi >= MantMin THEN 8 ELSE NumDigits(hi))

\* a + b, with a[2] >= b[2], both finite and non-zero: the exact sum,
\* held in two limbs at the exponent of b, then rounded once; a summand below
\* a tenth of a unit of a changes the result only just below a power of ten
AddSign(hi0, lo1, e) ==
  RoundPair(IF hi0 < 0 THEN -1 ELSE 1,
            IF hi0 < 0 THEN (IF lo1 = 0 THEN -hi0 ELSE -hi0 - 1) ELSE hi0,
            IF hi0 < 0 /\ lo1 # 0 THEN MantMax - lo1 ELSE lo1, e)
AddCarry(hiA, lo0, e) == AddSign(hiA + lo0 \div MantMax, lo0 % MantMax, e)
AddSplit(a1, b1, low, up, e) ==
  AddCarry(a1 \div low, (a1 % low) * up + b1, e)
AddAligned(a, b) ==
  LET diff == a[2] - b[2]
  IN IF diff > 9 THEN a
     ELSE IF diff = 9
     THEN (IF IAbs(a[1]) = MantMin /\ Sgn(a[1]) # Sgn(b[1])
              /\ 2 * IAbs(b[1]) > MantMax
           THEN PackExp(Sgn(a[1]) * (MantMax - 1), a[2] - 1)
           ELSE a)
     ELSE AddSplit(a[1], b[1], 10^(8 - diff), 10^diff, b[2])

FAdd(a, b) ==
  IF a = NaN THEN NaN
  ELSE IF b = NaN THEN NaN
  ELSE IF IsInf(a) THEN (IF IsInf(b) /\ a[1] # b[1] THEN NaN ELSE a)
  ELSE IF IsInf(b) THEN b
  ELSE IF IsZero(a) THEN b
  ELSE IF IsZero(b) THEN a
  ELSE AddAligned(IF a[2] >= b[2] THEN a ELSE b, IF a[2] >= b[2] THEN b ELSE a)

FSub(a, b) == FAdd(a, FNeg(b))

\* product of two mantissas in [MantMin, MantMax): <<high 8 digits, low 8 digits>>
MulLow(hi, lo) == <<hi + lo \div MantMax, lo % MantMax>>
MulCross(hh, cross, ll) ==
  MulLow(hh + cross \div Limb, (cross % Limb) * Limb + ll)
MulParts(x1, x0, y1, y0) == MulCross(x1 * y1, x1 * y0 + x0 * y1, x0 * y0)
MulMant(x, y) == MulParts(x \div Limb, x % Limb, y \div Limb, y % Limb)

\* s * (hi * MantMax + lo) * 10^(e - 8), a product of two mantissas, rounded
MulRound(s, hi, lo, e) ==
  IF hi >= MantMin THEN PackRound(s, hi, 2 * lo, MantMax, e + 8)
  ELSE PackRound(s, hi * 10 + lo \div MantMin, 2 * (lo % MantMin), MantMin, e + 7)
MulFinite(s, p, e) == MulRound(s, p[1], p[2], e)

FMul(a, b) ==
  IF a = NaN THEN NaN
  ELSE IF b = NaN THEN NaN
  ELSE IF IsInf(a) \/ IsInf(b)
    THEN (IF a[1] = 0 \/ b[1] = 0 THEN NaN ELSE Inf(Sgn(a[1]) * Sgn(b[1])))
  ELSE IF IsZero(a) \/ IsZero(b) THEN Zero
  ELSE MulFinite(Sgn(a[1]) * Sgn(b[1]), MulMant(IAbs(a[1]), IAbs(b[1])),
                 a[2] + b[2])

\* long division: n further digits of r / y appended to the quotient q
RECURSIVE LongDiv(_, _, _, _)
LongDiv(q, r, y, n) ==
  IF n = 0 \/ q < 0 \/ r < 0 THEN <<q, r>>
  ELSE LongDiv(q * 10 + (r * 10) \div y, (r * 10) % y, y, n - 1)

\* s * (x / y) * 10^e for two mantissas x and y, rounded
DivRound(s, d, y, e) == PackRound(s, d[1], 2 * d[2], y, e)
DivFinite(s, x, y, e) ==
  DivRound(s, LongDiv(x \div y, x % y, y, IF x >= y THEN 7 ELSE 8), y,
           e - (IF x >= y THEN 7 ELSE 8))

FDiv(a, b) ==
  IF a = NaN THEN NaN
  ELSE IF b = NaN THEN NaN
  ELSE IF IsInf(a) THEN (IF IsInf(b) THEN NaN
                         ELSE Inf(Sgn(a[1]) * (IF b[1] < 0 THEN -1 ELSE 1)))
  ELSE IF IsInf(b) THEN Zero
  ELSE IF IsZero(b) THEN (IF IsZero(a) THEN NaN ELSE Inf(Sgn(a[1])))
  ELSE IF IsZero(a) THEN Zero
  ELSE DivFinite(Sgn(a[1]) * Sgn(b[1]), IAbs(a[1]), IAbs(b[1]), a[2] - b[2])

\* comparisons (false whenever an operand is NaN)
LessSigned(sa, sb, a, b) ==
  IF sa # sb THEN sa < sb
  ELSE IF sa = 0 THEN FALSE
  ELSE IF sa = 1 THEN a[2] < b[2] \/ (a[2] = b[2] /\ a[1] < b[1])
  ELSE a[2] > b[2] \/ (a[2] = b[2] /\ a[1] < b[1])
Less(a, b) == LessSigned(Sgn(a[1]), Sgn(b[1]), a, b)
FLt(a, b) == a # NaN /\ b # NaN /\ Less(a, b)
FGt(a, b) == FLt(b, a)
FLe(a, b) == a # NaN /\ b # NaN /\ ~Less(b, a)
FGe(a, b) == FLe(b, a)

\* Math.max, Math.min, Math.abs
FMax(a, b) == IF a = NaN \/ b = NaN THEN NaN ELSE IF Less(a, b) THEN b ELSE a
FMin(a, b) == IF a = NaN \/ b = NaN THEN NaN ELSE IF Less(b, a) THEN b ELSE a

FEq(a, b) == a # NaN /\ b # NaN /\ a = b

\* Math.pow(x, -0.2) for x > 0: Newton's iteration y <- y * (6 - w * y^5) / 5
\* on w = x / 10^(5j) in [0.1, 10^4), started below the root
NewtonStep(w, y, y2) ==
  FDiv(FMul(y, FSub(I(6), FMul(w, FMul(FMul(y2, y2), y)))), I(5))
RECURSIVE NewtonInvFifth(_, _, _)
NewtonInvFifth(w, y, n) ==
  IF n = 0 \/ IsNaN(y) THEN y
  ELSE NewtonInvFifth(w, NewtonStep(w, y, FMul(y, y)), n - 1)

NewtonStart(r) ==
  CASE r = 0 -> Dec(1, 0)
    [] r = 1 -> Dec(63, -2)
    [] r = 2 -> Dec(39, -2)
    [] r = 3 -> Dec(25, -2)
    [] r = 4 -> Dec(15, -2)
PowScale(y, j) == Norm(1, y[1], y[2] - j)
PowReduced(m, j, r) ==
  PowScale(NewtonInvFifth(<<m, r - 8>>, NewtonStart(r), 8), j)
PowNegFifth(x) ==
  IF IsNaN(x) THEN NaN
  ELSE IF IsInf(x) THEN Zero
  ELSE PowReduced(x[1], (x[2] + 8) \div 5, (x[2] + 8) % 5)

\* ------------------------------------------------------------------------
\* Math.PI, Math.sin, Math.exp, Math.sinh, Math.log, Math.pow and the
\* remainder operator %, to the precision of the format
\* ------------------------------------------------------------------------
PI     == <<31415927, -7>>
TwoPi  == FMul(I(2), PI)
HalfPi == FDiv(PI, I(2))
LN10   == <<23025851, -7>>

\* r * 10^n mod y, for 0 <= r < y
Rem1(r, y) == (r * 10) % y
Rem4(r, y) == Rem1(Rem1(Rem1(Rem1(r, y), y), y), y)
RECURSIVE RemLoop(_, _, _)
RemLoop(r, y, n) ==
  IF n = 0 \/ r = 0 THEN r
  ELSE IF n >= 8 THEN RemLoop(Rem4(Rem4(r, y), y), y, n - 8)
  ELSE RemLoop(Rem1(r, y), y, n - 1)

\* a % b: the exact remainder, with the sign of the dividend
ModFinite(s, x, y, n, e) == Norm(s, RemLoop(x % y, y, n), e)
FMod(a, b) ==
  IF IsNaN(a) \/ IsNaN(b) \/ IsInf(a) \/ IsZero(b) THEN NaN
  ELSE IF IsInf(b) \/ IsZero(a) \/ Less(FAbs(a), FAbs(b)) THEN a
  ELSE ModFinite(Sgn(a[1]), IAbs(a[1]), IAbs(b[1]), a[2] - b[2], b[2])

\* the integer nearest to x (|x| < 10^8)
RoundUnits(s, m, unit) ==
  s * (IF 2 * (m % unit) >= unit THEN m \div unit + 1 ELSE m \div unit)
RoundToInt(x) ==
  IF x[2] >= 0 THEN x[1] * 10^(x[2])
  ELSE IF x[2] < -8 THEN 0
  ELSE RoundUnits(Sgn(x[1]), IAbs(x[1]), 10^(-x[2]))

\* 1 - z/(2n(2n+1)) * (1 - z/((2n+2)(2n+3)) * ( ... )): the sine series in z = r^2
RECURSIVE SinSeries(_, _, _)
SinSeries(z, n, acc) ==
  IF n = 0 \/ IsNaN(acc) THEN acc
  ELSE SinSeries(z, n - 1, FSub(I(1), FMul(FDiv(z, I(2 * n * (2 * n + 1))), acc)))

\* the sine of r in [-pi/2, pi/2]; of r1 in [-pi, pi]; of r0 in (-2 pi, 2 pi)
SinReduced(r) == FMul(r, SinSeries(FMul(r, r), 8, I(1)))
SinFold(r1) ==
  SinReduced(IF FGt(r1, HalfPi) THEN FSub(PI, r1)
             ELSE IF FLt(r1, FNeg(HalfPi)) THEN FSub(FNeg(PI), r1) ELSE r1)
SinWrap(r0) ==
  SinFold(IF FGt(r0, PI) THEN FSub(r0, TwoPi)
          ELSE IF FLt(r0, FNeg(PI)) THEN FAdd(r0, TwoPi) ELSE r0)
FSin(x) == IF ~IsFinite(x) THEN NaN ELSE SinWrap(FMod(x, TwoPi))

\* 1 + r/n * (1 + r/(n+1) * ( ... )): the exponential series
RECURSIVE ExpSeries(_, _, _)
ExpSeries(r, n, acc) ==
  IF n = 0 \/ IsNaN(acc) THEN acc
  ELSE ExpSeries(r, n - 1, FAdd(I(1), FMul(FDiv(r, I(n)), acc)))

\* exp(x) = 10^n * exp(x - n * ln 10), n the integer nearest to x / ln 10
ExpScale(y, n) == Norm(Sgn(y[1]), IAbs(y[1]), y[2] + n)
ExpReduced(x, n) == ExpScale(ExpSeries(FSub(x, FMul(I(n), LN10)), 14, I(1)), n)
FExp(x) ==
  IF IsNaN(x) THEN NaN
  ELSE IF FGt(x, I(1000)) THEN PosInf
  ELSE IF FLt(x, I(-1000)) THEN Zero
  ELSE ExpReduced(x, RoundToInt(FDiv(x, LN10)))

RECURSIVE SinhSeries(_, _, _)
SinhSeries(z, n, acc) ==
  IF n = 0 \/ IsNaN(acc) THEN acc
  ELSE SinhSeries(z, n - 1, FAdd(I(1), FMul(FDiv(z, I(2 * n * (2 * n + 1))), acc)))

FSinh(x) ==
  IF IsNaN(x) THEN NaN
  ELSE IF FLt(FAbs(x), I(1)) THEN FMul(x, SinhSeries(FMul(x, x), 6, I(1)))
  ELSE FDiv(FSub(FExp(x), FExp(FNeg(x))), I(2))

\* 1/(2n-1) + z * (1/(2n+1) + z * ( ... )): the series of atanh(u)/u in z = u^2
RECURSIVE LnSeries(_, _, _)
LnSeries(z, n, acc) ==
  IF n = 0 \/ IsNaN(acc) THEN acc
  ELSE LnSeries(z, n - 1, FAdd(FDiv(I(1), I(2 * n - 1)), FMul(z, acc)))

\* ln(z * 10^E) = 2 * atanh(u) + E * ln 10, u = (z - 1) / (z + 1), for z in
\* [10^(-1/2), 10^(1/2))
LnReduced(u, E) ==
  FAdd(FMul(FMul(I(2), u), LnSeries(FMul(u, u), 14, Zero)), FMul(I(E), LN10))
LnMant(z, E) == LnReduced(FDiv(FSub(z, I(1)), FAdd(z, I(1))), E)
FLn(x) ==
  IF IsNaN(x) \/ FLt(x, Zero) THEN NaN
  ELSE IF IsZero(x) THEN NegInf
  ELSE IF IsInf(x) THEN PosInf
  ELSE LnMant(<<x[1], IF x[1] > 31622777 THEN -8 ELSE -7>>,
              x[2] + (IF x[1] > 31622777 THEN 8 ELSE 7))

IsInt(y) ==
  IsFinite(y) /\ (y[2] >= 0 \/ (y[2] >= -7 /\ y[1] % 10^(-y[2]) = 0))

\* b^n for an integer n >= 0, by repeated squaring
RECURSIVE PowLoop(_, _, _)
PowLoop(r, b, n) ==
  IF n = 0 \/ (IsNaN(r) /\ IsNaN(b)) THEN r
  ELSE PowLoop(IF n % 2 = 1 THEN FMul(r, b) ELSE r,
               IF n \div 2 > 0 THEN FMul(b, b) ELSE b, n \div 2)

\* b^n for an integer n
PowInt(n, bn) == IF n >= 0 THEN bn ELSE FDiv(I(1), bn)
\* m^y for m = |b| and an infinite or large integral y
PowLarge(m, y) ==
  IF m = I(1) THEN (IF IsInf(y) THEN NaN ELSE I(1))
  ELSE IF FGt(m, I(1)) = (y[1] > 0) THEN PosInf ELSE Zero

\* Math.pow(b, y)
FPow(b, y) ==
  IF IsNaN(y) THEN NaN
  ELSE IF IsZero(y) THEN I(1)
  ELSE IF IsNaN(b) THEN NaN
  ELSE IF IsInt(y) /\ y[2] <= 1
    THEN LET n == IF y[2] >= 0 THEN y[1] * 10^(y[2]) ELSE y[1] \div 10^(-y[2])
         IN PowInt(n, PowLoop(I(1), b, IAbs(n)))
  ELSE IF IsInf(y) \/ IsInt(y) THEN PowLarge(FAbs(b), y)
  ELSE IF FLt(b, Zero) THEN NaN
  ELSE IF IsZero(b) THEN (IF y[1] > 0 THEN Zero ELSE PosInf)
  ELSE FExp(FMul(y, FLn(b)))

\* ------------------------------------------------------------------------
\* engine/solver.ts
\* ------------------------------------------------------------------------
c2 == FDiv(I(1), I(5))
c3 == FDiv(I(3), I(10))
c4 == FDiv(I(4), I(5))
c5 == FDiv(I(8), I(9))

a21 == FDiv(I(1), I(5))
a31 == FDiv(I(3), I(40))
a32 == FDiv(I(9), I(40))
a41 == FDiv(I(44), I(45))
a42 == FDiv(I(-56), I(15))
a43 == FDiv(I(32), I(9))
a51 == FDiv(I(19372), I(6561))
a52 == FDiv(I(-25360), I(2187))
a53 == FDiv(I(64448), I(6561))
a54 == FDiv(I(-212), I(729))
a61 == FDiv(I(9017), I(3168))
a62 == FDiv(I(-355), I(33))
a63 == FDiv(I(46732), I(5247))
a64 == FDiv(I(49), I(176))
a65 == FDiv(I(-5103), I(18656))
a71 == FDiv(I(35), I(384))
a73 == FDiv(I(500), I(1113))
a74 == FDiv(I(125), I(192))
a75 == FDiv(I(-2187), I(6784))
a76 == FDiv(I(11), I(84))

e1 == FDiv(I(71), I(57600))
e3 == FDiv(I(-71), I(16695))
e4 == FDiv(I(71), I(1920))
e5 == FDiv(I(-17253), I(339200))
e6 == FDiv(I(22), I(525))
e7 == FDiv(I(-1), I(40))

DefaultNumPoints == 2000
DefaultRtol      == Dec(1, -8)
DefaultAtol      == Dec(1, -10)
DefaultMaxSteps  == 500000

\* an optional field: <<>> when absent, <<v>> when present; o ?? d
Opt(o, d) == IF o = <<>> THEN d ELSE o[1]

clamp01(x) == IF FLt(x, Zero) THEN Zero ELSE IF FGt(x, I(1)) THEN I(1) ELSE x

\* a Float64Array of n zeros, indexed from 0; writes outside the array are
\* ignored
NewArray(n) == [i \in 0..(n - 1) |-> Zero]
ArrSet(arr, i, v) == IF i \in DOMAIN arr THEN [arr EXCEPT ![i] = v] ELSE arr

\* ------------------------------------------------------------------------
\* Input signals (engine/signals): a signal is [type, vp, vn, freq, tMax]
\* ------------------------------------------------------------------------
\* triangle.ts, sawtooth
\* lines 24-27, for the normalised phase p
sawtoothOf(p) ==
  IF p = NaN THEN NaN
  ELSE IF FLe(p, PI) THEN FAdd(I(-1), FDiv(FMul(I(2), p), PI))
  ELSE FSub(I(1), FDiv(FMul(I(2), FSub(p, PI)), PI))
\* line 21: p = ((phase % 2 pi) + 2 pi) % 2 pi
sawtoothNorm(p0) ==
  IF p0 = NaN THEN NaN ELSE sawtoothOf(FMod(FAdd(p0, TwoPi), TwoPi))
sawtooth(phase) == sawtoothNorm(FMod(phase, TwoPi))

\* triangle.ts, the closure returned by createTriangleSignal
\* line 50
TrianglePick(pos, neg) == IF FGt(pos, Zero) THEN pos ELSE neg
\* lines 41-48, for saw = |sawtooth(phase)|
TriangleFlip(pos0, neg, flip) ==
  TrianglePick(IF flip THEN FMul(pos0, I(-1)) ELSE pos0, neg)
TriangleOf(sig, t, saw) ==
  IF saw = NaN THEN NaN
  ELSE TriangleFlip(FMul(sig.vp, saw), FMul(FNeg(sig.vn), saw),
                    FGt(t, FDiv(sig.tMax, I(2))))
TriangleSignal(sig, t) ==
  TriangleOf(sig, t,
    FAbs(sawtooth(FAdd(FMul(FMul(TwoPi, sig.freq), t), FDiv(PI, I(2))))))

\* signals/index.ts, the closure returned by createSineSignal
SineOf(sig, raw) ==
  IF raw = NaN THEN NaN
  ELSE IF FGe(raw, Zero) THEN FMul(sig.vp, raw) ELSE FMul(sig.vn, raw)
SineSignal(sig, t) == SineOf(sig, FSin(FMul(FMul(TwoPi, sig.freq), t)))

Signal(sig, t) ==
  IF sig.type = "triangle" THEN TriangleSignal(sig, t) ELSE SineSignal(sig, t)

\* simulate, lines 225-233: triangle when signalType is 'triangle', sine
\* otherwise
CreateSignal(signalType, sp, tMax) ==
  [type |-> IF signalType = "triangle" THEN "triangle" ELSE "sine",
   vp |-> sp.vp, vn |-> sp.vn, freq |-> sp.frequency, tMax |-> tMax]

\* ------------------------------------------------------------------------
\* Window functions: a window is [kind, p, j]
\* ------------------------------------------------------------------------
\* variant: the exponent is p instead of 2p
joglekar_SingleExponent(x, i, p) ==
  FSub(I(1), FPow(FSub(FMul(I(2), x), I(1)), p))

joglekar(x, i, p) == FSub(I(1), FPow(FSub(FMul(I(2), x), I(1)), FMul(I(2), p)))

\* variant: the window does not look at the sign of the current
biolek_OneSided(x, i, p) ==
  FSub(I(1), FPow(x, FMul(I(2), p)))

biolek(x, i, p) ==
  LET hv == IF FLt(i, Zero) THEN I(1) ELSE Zero
  IN FSub(I(1), FPow(FSub(x, hv), FMul(I(2), p)))

anusudha(x, i, p, j) ==
  FMul(j, FSub(I(1), FMul(I(2),
    FPow(FAdd(FSub(FMul(FMul(x, x), x), x), I(1)), p))))

\* createWindowFunction(type, p = 1, j = 1); an optional argument is <<>>
\* when undefined
createWindowFunction(type, p, j) ==
  [kind |-> IF type \in {"joglekar", "biolek", "anusudha"} THEN type ELSE "none",
   p |-> Opt(p, I(1)), j |-> Opt(j, I(1))]

\* the window simulate hands to the model: undefined when windowType is absent
UndefinedWindow == [kind |-> "undefined", p |-> Zero, j |-> Zero]
UnbuiltWindow   == [kind |-> "unbuilt", p |-> Zero, j |-> Zero]

WindowValue(w, x, i) ==
  CASE w.kind = "joglekar" -> joglekar(x, i, w.p)
    [] w.kind = "biolek"   -> biolek(x, i, w.p)
    [] w.kind = "anusudha" -> anusudha(x, i, w.p, w.j)
    [] OTHER               -> I(1)

\* ------------------------------------------------------------------------
\* Device models (engine/models)
\* ------------------------------------------------------------------------
\* hpLabsModel
HpCurrent(v, x, p) ==
  FDiv(v, FAdd(FMul(p.RON, x), FMul(p.ROFF, FSub(I(1), x))))

\* dxdt, lines 151-154, for the voltage v = vFunc(t) of line 150
HpDrift(i, F, p) ==
  IF i = NaN \/ F = NaN THEN NaN
  ELSE FMul(FMul(FDiv(FMul(p.muD, p.RON), FMul(p.D, p.D)), i), F)
HpWindowed(i, x, p, w) ==
  HpDrift(i, IF w.kind = "undefined" THEN I(1) ELSE WindowValue(w, x, i), p)
HpDxdt(v, x, p, w) == HpWindowed(HpCurrent(v, x, p), x, p, w)

\* yakopcicModel
wp(x, xp) == FAdd(FDiv(FSub(xp, x), FSub(I(1), xp)), I(1))
wn(x, xn) == FDiv(x, FSub(I(1), xn))

\* variant: the two thresholds change places
g_SwappedBand(v, Ap, An, Vp, Vn) ==
  IF FGt(v, Vn) THEN FMul(Ap, FSub(FExp(v), FExp(Vn)))
  ELSE IF FLt(v, FNeg(Vp)) THEN FMul(FNeg(An), FSub(FExp(FNeg(v)), FExp(Vp)))
  ELSE Zero

g(v, Ap, An, Vp, Vn) ==
  IF FGt(v, Vp) THEN FMul(Ap, FSub(FExp(v), FExp(Vp)))
  ELSE IF FLt(v, FNeg(Vn)) THEN FMul(FNeg(An), FSub(FExp(FNeg(v)), FExp(Vn)))
  ELSE Zero

fWindow(v, x, alphap, alphan, xp, xn, eta) ==
  IF FGe(FMul(eta, v), Zero)
  THEN (IF FGe(x, xp)
        THEN FMul(FExp(FMul(FNeg(alphap), FSub(x, xp))), wp(x, xp))
        ELSE I(1))
  ELSE (IF FLe(x, FSub(I(1), xn))
        THEN FMul(FExp(FMul(alphan, FSub(FAdd(x, xn), I(1)))), wn(x, xn))
        ELSE I(1))

\* variant: the amplitude a1 is used for either sign of the voltage
YkCurrent_OneAmplitude(v, x, p) ==
  FMul(FMul(p.a1, x), FSinh(FMul(p.b, v)))

YkCurrent(v, x, p) ==
  FMul(FMul(IF FGe(v, Zero) THEN p.a1 ELSE p.a2, x), FSinh(FMul(p.b, v)))

\* dxdt, lines 217-222, for the voltage v = vFunc(t) of line 216
YkProduct(eta, gv, fv) ==
  IF gv = NaN \/ fv = NaN THEN NaN ELSE FMul(FMul(eta, gv), fv)
YkDxdt(v, x, p) ==
  YkProduct(p.eta, g(v, p.Ap, p.An, p.Vp, p.Vn),
            fWindow(v, x, p.alphap, p.alphan, p.xp, p.xn, p.eta))

\* models/index.ts, MODEL_REGISTRY: the registered ids, and the keys that the
\* object literal inherits from Object.prototype
RegisteredIds == {"yakopcic", "hp_labs"}
ObjectPrototypeKeys ==
  {"constructor", "toString", "toLocaleString", "valueOf", "hasOwnProperty",
   "isPrototypeOf", "propertyIsEnumerable", "__proto__"}

\* MODEL_REGISTRY[id]: a model, an inherited member of Object.prototype
\* (truthy, and without the members dxdt and current), or undefined
Lookup(id) ==
  IF id \in RegisteredIds THEN id
  ELSE IF id \in ObjectPrototypeKeys THEN "inherited"
  ELSE "undefined"

\* variant: current called with the state first and the voltage second
ModelCurrent_Swapped(m, v, x, p) ==
  IF m = "hp_labs" THEN HpCurrent(x, v, p) ELSE YkCurrent(x, v, p)

ModelCurrent(m, v, x, p) ==
  IF m = "hp_labs" THEN HpCurrent(v, x, p) ELSE YkCurrent(v, x, p)

\* model.dxdt(t, x, vFunc, p, windowFunc): both models start by evaluating
\* v = vFunc(t)
\* variant: the Yakopcic rate is multiplied by the window when one is given
ModelRate_Windowed(m, v, x, p, w) ==
  IF m = "hp_labs" THEN HpDxdt(v, x, p, w)
  ELSE FMul(YkDxdt(v, x, p),
            IF w.kind = "undefined" THEN I(1) ELSE WindowValue(w, x, v))

ModelRate(m, v, x, p, w) ==
  IF m = "hp_labs" THEN HpDxdt(v, x, p, w) ELSE YkDxdt(v, x, p)
ModelDxdt(m, t, x, sig, p, w) == ModelRate(m, Signal(sig, t), x, p, w)

\* ------------------------------------------------------------------------
\* The right-hand sides handed to solve: the constant f(t, x) = b,
\* f(t, x) = a * x + b, and the closure rhs built by simulate
\* ------------------------------------------------------------------------
Rhs(f, t, x) ==
  CASE f.kind = "const"  -> f.b
    [] f.kind = "affine" -> FAdd(FMul(f.a, x), f.b)
    [] f.kind = "model"  -> ModelDxdt(f.model, t, x, f.signal, f.params, f.window)

\* calling rhs throws a TypeError when the looked-up model has no dxdt
RhsThrows(f) == f.kind = "model" /\ f.model \notin RegisteredIds

\* lines 76-84: the output times
\* variant: the last output time is computed like the others (line 84 left out)
TimeGrid_NoEndpoint(t0, tEnd, numPoints) ==
  LET dt == FDiv(FSub(tEnd, t0), I(numPoints - 1))
  IN [i \in 0..(numPoints - 1) |-> FAdd(t0, FMul(I(i), dt))]

\* lines 75-84: the output times
TimeGrid(t0, tEnd, numPoints) ==
  LET dt == FDiv(FSub(tEnd, t0), I(numPoints - 1))
  IN ArrSet([i \in 0..(numPoints - 1) |-> FAdd(t0, FMul(I(i), dt))],
            numPoints - 1, tEnd)

\* lines 108-110: the step size actually used by an attempt
AtLeast(h1, hMin) == IF FLt(h1, hMin) THEN hMin ELSE h1
StepUsed(tCur, h, tEnd, hMin) ==
  AtLeast(IF FGt(FAdd(tCur, h), tEnd) THEN FSub(tEnd, tCur) ELSE h, hMin)

\* line 121: the 5th-order solution
XNew(xCur, h, k1, k3, k4, k5, k6) ==
  FAdd(xCur, FMul(h,
    FAdd(FAdd(FAdd(FAdd(FMul(a71, k1), FMul(a73, k3)), FMul(a74, k4)),
              FMul(a75, k5)), FMul(a76, k6))))

\* line 125: the error estimate
ErrEstimate(h, k1, k3, k4, k5, k6, k7) ==
  FMul(h,
    FAdd(FAdd(FAdd(FAdd(FAdd(FMul(e1, k1), FMul(e3, k3)), FMul(e4, k4)),
                   FMul(e5, k5)), FMul(e6, k6)), FMul(e7, k7)))

\* lines 126-127: the error ratio
ErrNorm(err, atol, rtol, xCur, xNew) ==
  FDiv(FAbs(err), FAdd(atol, FMul(rtol, FMax(FAbs(xCur), FAbs(xNew)))))

\* lines 114-122: the time at which stage i = 2..7 evaluates f
StageTime(i, tCur, h) ==
  CASE i = 2 -> FAdd(tCur, FMul(c2, h))
    [] i = 3 -> FAdd(tCur, FMul(c3, h))
    [] i = 4 -> FAdd(tCur, FMul(c4, h))
    [] i = 5 -> FAdd(tCur, FMul(c5, h))
    [] OTHER -> FAdd(tCur, h)

\* lines 114-121: the state of stage i = 2..7 before it is clamped, from
\* the slopes k computed so far; that of stage 7 is xNew
StageState(i, xCur, h, k) ==
  CASE i = 2 -> FAdd(xCur, FMul(FMul(h, a21), k[1]))
    [] i = 3 -> FAdd(xCur, FMul(h, FAdd(FMul(a31, k[1]), FMul(a32, k[2]))))
    [] i = 4 -> FAdd(xCur, FMul(h,
                  FAdd(FAdd(FMul(a41, k[1]), FMul(a42, k[2])), FMul(a43, k[3]))))
    [] i = 5 -> FAdd(xCur, FMul(h,
                  FAdd(FAdd(FAdd(FMul(a51, k[1]), FMul(a52, k[2])),
                            FMul(a53, k[3])), FMul(a54, k[4]))))
    [] i = 6 -> FAdd(xCur, FMul(h,
                  FAdd(FAdd(FAdd(FAdd(FMul(a61, k[1]), FMul(a62, k[2])),
                                 FMul(a63, k[3])), FMul(a64, k[4])),
                       FMul(a65, k[5]))))
    [] OTHER -> XNew(xCur, h, k[1], k[3], k[4], k[5], k[6])

\* one stage: f at time t and the clamped state xc; st holds the slopes
\* k1.., the clamped states x2.., the times, and the last unclamped state
StageEval(f, t, xRaw, xc, st) ==
  [k |-> Append(st.k, Rhs(f, t, xc)), x |-> Append(st.x, xc),
   t |-> Append(st.t, t), raw |-> xRaw]
StageClamp(f, t, xRaw, st) == StageEval(f, t, xRaw, clamp01(xRaw), st)

\* lines 114-122: the stages i..7 in the order the program computes them
RECURSIVE Stages(_, _, _, _, _, _)
Stages(f, tCur, xCur, h, st, i) ==
  IF i > 7 THEN st
  ELSE Stages(f, tCur, xCur, h,
              StageClamp(f, StageTime(i, tCur, h),
                         StageState(i, xCur, h, st.k), st),
              i + 1)

\* lines 113-127: one attempt from (tCur, xCur) with step h and first slope k1;
\* stages holds the clamped stage states and the slopes in the order the
\* program computes them: x2, k2, x3, k3, x4, k4, x5, k5, x6, k6, x7, k7
AttemptErr(tCur, xCur, h, k1, atol, rtol, st, err) ==
  [h |-> h, tCur |-> tCur, xCur |-> xCur, k1 |-> k1,
   stages |-> <<st.x[1], st.k[2], st.x[2], st.k[3], st.x[3], st.k[4],
                st.x[4], st.k[5], st.x[5], st.k[6], st.x[6], st.k[7]>>,
   ts |-> st.t, xNew |-> st.raw, err |-> err,
   errNorm |-> ErrNorm(err, atol, rtol, xCur, st.raw)]
AttemptOf(tCur, xCur, h, k1, atol, rtol, st) ==
  AttemptErr(tCur, xCur, h, k1, atol, rtol, st,
             ErrEstimate(h, st.k[1], st.k[3], st.k[4], st.k[5], st.k[6], st.k[7]))
Attempt(f, tCur, xCur, h, k1, atol, rtol) ==
  AttemptOf(tCur, xCur, h, k1, atol, rtol,
            Stages(f, tCur, xCur, h,
                   [k |-> <<k1>>, x |-> <<>>, t |-> <<>>, raw |-> xCur], 2))

\* the slopes k1..k7 of an attempt, and the states x2..x7 handed to f
AttK(at) == <<at.k1, at.stages[2], at.stages[4], at.stages[6], at.stages[8],
              at.stages[10], at.stages[12]>>
AttX(at) == <<at.stages[1], at.stages[3], at.stages[5], at.stages[7],
              at.stages[9], at.stages[11]>>

\* lines 138-143: the weights of the dense-output interpolant
b1(theta) ==
  FMul(theta, FAdd(I(1), FMul(theta, FAdd(FDiv(I(-1337), I(480)),
    FMul(theta, FSub(FDiv(I(1039), I(360)),
                     FDiv(FMul(theta, I(1163)), I(1152))))))))
b3(theta) ==
  FMul(FMul(theta, theta), FMul(FDiv(I(100), I(13)),
    FMul(theta, FAdd(FDiv(I(-242), I(45)),
                     FDiv(FMul(theta, I(311)), I(144))))))
b4(theta) ==
  FMul(FMul(theta, theta), FMul(FDiv(I(-125), I(48)),
    FMul(theta, FAdd(I(-2), FDiv(FMul(theta, I(151)), I(144))))))
b5(theta) ==
  FMul(FMul(theta, theta), FMul(theta, FMul(FDiv(I(18225), I(848)),
    FMul(theta, FAdd(FDiv(I(-3), I(5)),
                     FDiv(FMul(theta, I(121)), I(336)))))))
b6(theta) ==
  FMul(FMul(theta, theta), FMul(theta, FMul(FDiv(I(-11), I(3)),
    FMul(theta, FAdd(FDiv(I(-3), I(2)),
                     FDiv(FMul(theta, I(121)), I(120)))))))
b7(theta) ==
  FMul(FMul(theta, theta), FMul(theta, FMul(FDiv(I(1), I(2)),
    FMul(theta, FAdd(FDiv(I(-4), I(3)), theta)))))

\* variant: the interpolated increment without the state it starts from
Interp_NoBase(theta, xCur, h, k) ==
  FMul(h,
    FAdd(FAdd(FAdd(FAdd(FAdd(FMul(b1(theta), k[1]), FMul(b3(theta), k[3])),
                        FMul(b4(theta), k[4])), FMul(b5(theta), k[5])),
              FMul(b6(theta), k[6])), FMul(b7(theta), k[7])))

\* line 144: the interpolated state at local fraction theta
Interp(theta, xCur, h, k) ==
  FAdd(xCur, FMul(h,
    FAdd(FAdd(FAdd(FAdd(FAdd(FMul(b1(theta), k[1]), FMul(b3(theta), k[3])),
                        FMul(b4(theta), k[4])), FMul(b5(theta), k[5])),
              FMul(b6(theta), k[6])), FMul(b7(theta), k[7]))))

\* line 135: the index at which the while loop stops: the first index from
\* outIdx whose output time lies beyond tNew + 1e-14 * |tNew|, or numPoints
FirstOf(beyond, numPoints) ==
  IF beyond = {} THEN numPoints
  ELSE CHOOSE i \in beyond : \A j \in beyond : i <= j
FillLimit(tOut, outIdx, numPoints, lim) ==
  IF outIdx >= numPoints THEN outIdx
  ELSE FirstOf({ i \in outIdx..(numPoints - 1) : ~FLe(tOut[i], lim) },
               numPoints)
\* variant: the loop of line 135 stops after one slot
FillEnd_OneSlot(tOut, outIdx, numPoints, tNew) ==
  FillLimit(tOut, outIdx, IF outIdx < numPoints THEN outIdx + 1 ELSE numPoints,
            FAdd(tNew, FMul(Dec(1, -14), FAbs(tNew))))
FillEnd(tOut, outIdx, numPoints, tNew) ==
  FillLimit(tOut, outIdx, numPoints,
            FAdd(tNew, FMul(Dec(1, -14), FAbs(tNew))))

\* lines 135-147: fill the output slots that the accepted step reaches;
\* yields <<yOut, outIdx>>
FillUpTo(tOut, yOut, outIdx, end, at, k) ==
  << [i \in DOMAIN yOut |->
        IF i >= outIdx /\ i < end
        THEN clamp01(Interp(FDiv(FSub(tOut[i], at.tCur), at.h),
                            at.xCur, at.h, k))
        ELSE yOut[i]],
     end >>
FillDense(tOut, yOut, outIdx, numPoints, tNew, at) ==
  FillUpTo(tOut, yOut, outIdx, FillEnd(tOut, outIdx, numPoints, tNew),
           at, AttK(at))

\* lines 155-160: the next step size
\* line 160: Math.max(hMin, Math.min(hMax, hNew)) for finite hMin, hMax
StepClamp(hNew, hMin, hMax) ==
  AtLeast(IF FGt(hNew, hMax) THEN hMax ELSE hNew, hMin)
StepSize(h, errNorm, hMin, hMax) ==
  StepClamp(FMul(h, FMin(I(5), FMax(Dec(2, -1),
              FMul(Dec(9, -1),
                   IF FGt(errNorm, Zero) THEN PowNegFifth(errNorm) ELSE I(5))))),
            hMin, hMax)

\* variant: the fill starts at index 0 instead of outIdx
FillRest_FromStart(yOut, outIdx, numPoints, xCur) ==
  [i \in DOMAIN yOut |-> IF i < numPoints THEN xCur ELSE yOut[i]]

\* lines 104 and 164-166: for (i = outIdx; i < numPoints; i++) yOut[i] = xCur
FillRest(yOut, outIdx, numPoints, xCur) ==
  [i \in DOMAIN yOut |-> IF i >= outIdx /\ i < numPoints THEN xCur ELSE yOut[i]]

\* ------------------------------------------------------------------------
\* State
\* ------------------------------------------------------------------------
VARIABLES
  pc,         \* position of the running call: "simulate", "solve", "loop",
              \* "exit", "post", and the final "done" and "thrown"
  entry,      \* the function that was called: "simulate" or "solve"
  config,     \* the argument of simulate
  model,      \* simulate: the looked-up model
  signal,     \* simulate: the input signal
  windowFunc, \* simulate: the window function
  invoked,    \* whether solve has been called
  result,     \* the value returned by simulate
  error,      \* the error thrown ("" when none)
  args,       \* the arguments of solve: [f, tSpan, x0, options]
  numPoints, rtol, atol, maxSteps,   \* lines 70-73
  tOut, yOut,                        \* lines 79-80
  tCur, xCur, outIdx,                \* lines 89-91
  h, hMin, hMax,                     \* lines 94-96
  k1, steps,                         \* lines 98-99
  term,       \* how the loop ended: "none", "normal" or "maxsteps"
  att,        \* the last step attempt (<<>> before the first)
  accepted,   \* whether the last step attempt was accepted
  ncalls,     \* number of calls made to f
  sol,        \* the value returned by solve (<<>> before the return)
  other       \* a second run, suspended while this one executes: the record
              \* of its variables (<<>> when there is a single run)

solverVars == <<numPoints, rtol, atol, maxSteps, tOut, yOut, tCur, xCur,
                outIdx, h, hMin, hMax, k1, steps, term, att, accepted,
                ncalls, sol>>
simVars == <<entry, config, model, signal, windowFunc, result>>
vars == <<pc, simVars, invoked, error, args, solverVars, other>>

\* ------------------------------------------------------------------------
\* Inputs
\* ------------------------------------------------------------------------
MaxPoints == 4
MaxBudget == 6

Huge == <<95000000, MaxExp>>

Const(b)     == [kind |-> "const", a |-> Zero, b |-> b]
Affine(a, b) == [kind |-> "affine", a |-> a, b |-> b]
\* right-hand sides whose steps get accepted, and those that never are
ConstSet  == { Const(Zero), Const(I(1)), Const(I(-1)), Const(Huge) }
AffineSet == { Affine(I(-1), Zero), Affine(I(-200), I(100)) }
RejectSet == { Const(NaN), Const(PosInf) }
SpanSet == { <<Zero, Dec(5, -1)>>, <<I(1), I(3)>> }
\* a span narrower than the spacing of the numbers of the format at t0
StallSpan == <<Dec(1, 8), FAdd(Dec(1, 8), I(10))>>
\* a span whose end lies closer to a time the steps reach (t = 0) than hMin
ShortEndSpan == <<I(-1), Dec(1, -30)>>
X0Set   == { Zero, Dec(25, -2), I(1), Dec(-5, -1), Dec(15, -1) }
PointsSet == { <<n>> : n \in 1..MaxPoints }
BudgetSet == { <<>> } \cup { <<n>> : n \in {0, MaxBudget} }

Call(f, ts, x0, np, ms) ==
  [f |-> f, tSpan |-> ts, x0 |-> x0,
   options |-> [numPoints |-> np, rtol |-> <<>>, atol |-> <<>>, maxSteps |-> ms]]

\* the direct calls of solve; a right-hand side that is never accepted and a
\* span on which time cannot advance are given a finite step budget
SolveCalls ==
  { Call(f, ts, x0, np, ms) :
      f \in ConstSet, ts \in SpanSet, x0 \in X0Set, np \in PointsSet,
      ms \in BudgetSet }
  \cup
  { Call(f, <<Zero, Dec(5, -1)>>, x0, np, ms) :
      f \in AffineSet, x0 \in { Dec(25, -2), Dec(15, -1) }, np \in PointsSet,
      ms \in BudgetSet }
  \cup
  { Call(f, ts, x0, np, ms) :
      f \in RejectSet, ts \in SpanSet, x0 \in { Zero, Dec(25, -2) },
      np \in PointsSet, ms \in BudgetSet \ { <<>> } }
  \cup
  { Call(f, StallSpan, x0, np, ms) :
      f \in { Const(Zero), Const(I(1)) }, x0 \in { Zero, Dec(25, -2) },
      np \in PointsSet, ms \in BudgetSet \ { <<>> } }
  \cup
  { Call(f, ShortEndSpan, Dec(25, -2), np, <<>>) :
      f \in { Const(Zero), Const(I(1)) }, np \in PointsSet }

\* the configurations handed to simulate
HpParams == [D |-> Dec(27, -9), RON |-> Dec(10, 3), ROFF |-> Dec(100, 3),
             muD |-> Dec(1, -14)]
YkParams == [a1 |-> Dec(17, -2), a2 |-> Dec(17, -2), b |-> Dec(5, -2),
             Ap |-> I(4000), An |-> I(4000), Vp |-> Dec(16, -2),
             Vn |-> Dec(15, -2), alphap |-> I(1), alphan |-> I(5),
             xp |-> Dec(3, -1), xn |-> Dec(5, -1), eta |-> I(1)]

HpConfig(st, w, np) ==
  [modelId |-> "hp_labs", modelParams |-> HpParams, signalType |-> st,
   signalParams |-> [vp |-> I(1), vn |-> I(1), frequency |-> I(1)],
   x0 |-> Dec(1, -1), tMax |-> Dec(1, -1), numPoints |-> np,
   windowType |-> w[1], windowP |-> w[2], windowJ |-> w[3]]

YkConfig(st, np) ==
  [modelId |-> "yakopcic", modelParams |-> YkParams, signalType |-> st,
   signalParams |-> [vp |-> Dec(45, -2), vn |-> Dec(45, -2),
                     frequency |-> I(100)],
   x0 |-> Dec(11, -2), tMax |-> Dec(1, -3), numPoints |-> np,
   windowType |-> <<>>, windowP |-> <<>>, windowJ |-> <<>>]

SignalTypes == { "sine", "triangle" }
\* <<windowType, windowP, windowJ>>, each <<>> when absent
WindowSet ==
  { << <<>>, <<>>, <<>> >>,
    << <<"none">>, <<>>, <<>> >>,
    << <<"joglekar">>, <<I(2)>>, <<>> >>,
    << <<"biolek">>, <<>>, <<>> >>,
    << <<"anusudha">>, <<I(2)>>, <<Dec(5, -1)>> >> }
UnknownIds == { "nonexistent", "", "HP_LABS", "constructor", "toString",
                "__proto__" }

SimConfigs ==
  { HpConfig("sine", w, <<MaxPoints>>) : w \in WindowSet }
  \cup { HpConfig("triangle", w, <<MaxPoints>>) :
            w \in { << <<>>, <<>>, <<>> >>, << <<"biolek">>, <<>>, <<>> >> } }
  \cup { HpConfig("triangle", << <<>>, <<>>, <<>> >>, <<>>) }
  \cup { YkConfig(st, <<MaxPoints>>) : st \in SignalTypes }
  \cup { [HpConfig("sine", << <<"joglekar">>, wP, <<>> >>, <<MaxPoints>>)
            EXCEPT !.x0 = x0] : wP \in { <<>>, <<I(2)>> }, x0 \in { Zero, I(1) } }
  \cup { [HpConfig(st, << <<"joglekar">>, <<I(2)>>, <<>> >>, <<MaxPoints>>)
            EXCEPT !.modelId = id] : st \in SignalTypes, id \in UnknownIds }

NoConfig == [modelId |-> "-"]
NoCall   == Call(Const(Zero), <<Zero, Zero>>, Zero, <<>>, <<>>)
NoResult == [time |-> <<>>, voltage |-> <<>>, current |-> <<>>,
             stateVariable |-> <<>>]
UnbuiltSignal == [type |-> "unbuilt", vp |-> Zero, vn |-> Zero, freq |-> Zero,
                  tMax |-> Zero]

Init ==
  /\ \/ /\ entry = "solve" /\ pc = "solve"
        /\ args \in SolveCalls /\ config = NoConfig /\ invoked = TRUE
     \/ /\ entry = "simulate" /\ pc = "simulate"
        /\ config \in SimConfigs /\ args = NoCall /\ invoked = FALSE
  /\ model = "unset" /\ signal = UnbuiltSignal /\ windowFunc = UnbuiltWindow
  /\ result = NoResult /\ error = ""
  /\ numPoints = 0 /\ rtol = Zero /\ atol = Zero /\ maxSteps = 0
  /\ tOut = NewArray(0) /\ yOut = NewArray(0)
  /\ tCur = Zero /\ xCur = Zero /\ outIdx = 0
  /\ h = Zero /\ hMin = Zero /\ hMax = Zero
  /\ k1 = Zero /\ steps = 0
  /\ term = "none" /\ att = <<>> /\ accepted = FALSE /\ ncalls = 0
  /\ sol = [t |-> NewArray(0), y |-> NewArray(0)]
  /\ other = <<>>

\* ------------------------------------------------------------------------
\* simulate
\* ------------------------------------------------------------------------
DefaultSimPoints == 10000

\* lines 219-222: the lookup yields undefined, and simulate throws
SimulateUnknownModel ==
  /\ pc = "simulate"
  /\ Lookup(config.modelId) = "undefined"
  /\ model' = "undefined"
  /\ error' = "Unknown model"
  /\ pc' = "thrown"
  /\ UNCHANGED <<other, entry, config, signal, windowFunc, result, invoked, args,
                 solverVars>>

\* lines 219-246: the lookup yields a value; the signal, the window and the
\* right-hand side are built and solve is called
SimulateBegin ==
  /\ pc = "simulate"
  /\ Lookup(config.modelId) # "undefined"
  /\ model' = Lookup(config.modelId)
  /\ signal' = CreateSignal(config.signalType, config.signalParams, config.tMax)
  /\ windowFunc' = IF config.windowType = <<>> THEN UndefinedWindow
                   ELSE createWindowFunction(config.windowType[1],
                                             config.windowP, config.windowJ)
  /\ args' = Call([kind |-> "model", model |-> model', signal |-> signal',
                   params |-> config.modelParams, window |-> windowFunc'],
                  <<Zero, config.tMax>>, config.x0,
                  <<Opt(config.numPoints, DefaultSimPoints)>>, <<>>)
  /\ invoked' = TRUE
  /\ pc' = "solve"
  /\ UNCHANGED <<other, entry, config, result, error, solverVars>>

\* lines 249-262: the arrays of the result over the output indices idx
PostArrays(idx, v) ==
  [time |-> [i \in idx |-> sol.t[i]],
   voltage |-> v,
   current |-> [i \in idx |->
     ModelCurrent(model, v[i], sol.y[i], config.modelParams)],
   stateVariable |-> [i \in idx |-> sol.y[i]]]
PostProcess(idx) == PostArrays(idx, [i \in idx |-> Signal(signal, sol.t[i])])

\* lines 249-264: voltage and current at each output point, and the return
SimulateEnd ==
  /\ pc = "post"
  /\ result' = PostProcess(0..(Opt(config.numPoints, DefaultSimPoints) - 1))
  /\ pc' = "done"
  /\ UNCHANGED <<other, entry, config, model, signal, windowFunc, invoked, error,
                 args, solverVars>>

\* ------------------------------------------------------------------------
\* solve (engine/solver.ts)
\* ------------------------------------------------------------------------
\* lines 70-96: defaults, output arrays, first sample, initial step
SolveSetup ==
  LET n    == Opt(args.options.numPoints, DefaultNumPoints)
      t0   == args.tSpan[1]
      tEnd == args.tSpan[2]
  IN /\ numPoints' = n
     /\ rtol' = Opt(args.options.rtol, DefaultRtol)
     /\ atol' = Opt(args.options.atol, DefaultAtol)
     /\ maxSteps' = Opt(args.options.maxSteps, DefaultMaxSteps)
     /\ tOut' = TimeGrid(t0, tEnd, n)
     /\ yOut' = ArrSet(NewArray(n), 0, clamp01(args.x0))
     /\ tCur' = t0
     /\ xCur' = clamp01(args.x0)
     /\ outIdx' = 1
     /\ h' = FMul(FSub(tEnd, t0), Dec(1, -3))
     /\ hMin' = FMul(FSub(tEnd, t0), Dec(1, -12))
     /\ hMax' = FMul(FSub(tEnd, t0), Dec(1, -1))

\* lines 70-99: the setup, the first slope and the step counter
SolveBegin ==
  /\ pc = "solve"
  /\ ~RhsThrows(args.f)
  /\ SolveSetup
  /\ k1' = Rhs(args.f, args.tSpan[1], clamp01(args.x0))
  /\ steps' = 0
  /\ ncalls' = 1
  /\ pc' = "loop"
  /\ UNCHANGED <<other, simVars, invoked, error, args, term, att, accepted, sol>>

\* lines 70-98: the setup, and the first call of f throws
SolveThrow ==
  /\ pc = "solve"
  /\ RhsThrows(args.f)
  /\ SolveSetup
  /\ ncalls' = 1
  /\ error' = "TypeError"
  /\ pc' = "thrown"
  /\ UNCHANGED <<other, simVars, invoked, args, k1, steps, term, att, accepted, sol>>

\* line 101
LoopCond == FLt(tCur, args.tSpan[2]) /\ outIdx < numPoints

\* lines 102-106: the step budget is exceeded
BudgetExceeded ==
  /\ pc = "loop" /\ LoopCond
  /\ steps > maxSteps
  /\ steps' = steps + 1
  /\ yOut' = FillRest(yOut, outIdx, numPoints, xCur)
  /\ term' = "maxsteps"
  /\ pc' = "exit"
  /\ UNCHANGED <<other, simVars, invoked, error, args, numPoints, rtol, atol, maxSteps, tOut, tCur, xCur,
                 outIdx, h, hMin, hMax, k1, att, accepted, ncalls, sol>>

\* the attempt made by the next loop iteration
NextAttempt ==
  Attempt(args.f, tCur, xCur, StepUsed(tCur, h, args.tSpan[2], hMin), k1,
          atol, rtol)

\* variant: the first slope is kept after an accepted step (line 151 left out)
AcceptFill_StaleSlope(at, tNew, fill) ==
  /\ yOut' = fill[1]
  /\ outIdx' = fill[2]
  /\ tCur' = tNew
  /\ xCur' = clamp01(at.xNew)
  /\ k1' = at.k1
  /\ h' = StepSize(at.h, at.errNorm, hMin, hMax)
  /\ att' = at

\* lines 129-160 for an attempt at with errNorm <= 1 that ends at tNew and
\* fills the output as fill = <<yOut, outIdx>>
AcceptFill(at, tNew, fill) ==
  /\ yOut' = fill[1]
  /\ outIdx' = fill[2]
  /\ tCur' = tNew
  /\ xCur' = clamp01(at.xNew)
  /\ k1' = at.stages[12]
  /\ h' = StepSize(at.h, at.errNorm, hMin, hMax)
  /\ att' = at
AcceptStep(at, tNew) ==
  AcceptFill(at, tNew, FillDense(tOut, yOut, outIdx, numPoints, tNew, at))
\* variant: a step is accepted up to an error ratio of 2
AcceptAttempt_Lenient(at) ==
  /\ FLe(at.errNorm, I(2))
  /\ AcceptStep(at, FAdd(tCur, at.h))
AcceptAttempt(at) ==
  /\ FLe(at.errNorm, I(1))
  /\ AcceptStep(at, FAdd(tCur, at.h))

\* lines 129 and 155-160 for an attempt at with errNorm > 1 (or NaN)
RejectAttempt(at) ==
  /\ ~FLe(at.errNorm, I(1))
  /\ h' = StepSize(at.h, at.errNorm, hMin, hMax)
  /\ att' = at

\* lines 108-160, errNorm <= 1: the step is accepted
StepAccepted ==
  /\ pc = "loop" /\ LoopCond
  /\ ~(steps > maxSteps)
  /\ AcceptAttempt(NextAttempt)
  /\ accepted' = TRUE
  /\ steps' = steps + 1
  /\ ncalls' = ncalls + 6
  /\ UNCHANGED <<other, pc, simVars, invoked, error, args, numPoints, rtol, atol, maxSteps, tOut, hMin, hMax,
                 term, sol>>

\* variant: a rejected step that is not counted against the budget
StepRejected_NotCounted ==
  /\ pc = "loop" /\ LoopCond
  /\ ~(steps > maxSteps)
  /\ RejectAttempt(NextAttempt)
  /\ accepted' = FALSE
  /\ ncalls' = ncalls + 6
  /\ UNCHANGED <<other, pc, simVars, invoked, error, args, numPoints, rtol, atol, maxSteps, tOut, yOut, tCur,
                 xCur, outIdx, hMin, hMax, k1, steps, term, sol>>

\* variant: a rejected step advances the time like an accepted one
StepRejected_TimeAdvanced ==
  /\ pc = "loop" /\ LoopCond
  /\ ~(steps > maxSteps)
  /\ RejectAttempt(NextAttempt)
  /\ tCur' = FAdd(tCur, att'.h)
  /\ accepted' = FALSE
  /\ steps' = steps + 1
  /\ ncalls' = ncalls + 6
  /\ UNCHANGED <<other, pc, simVars, invoked, error, args, numPoints, rtol, atol, maxSteps, tOut, yOut,
                 xCur, outIdx, hMin, hMax, k1, term, sol>>

\* lines 108-160, otherwise: the step is rejected
StepRejected ==
  /\ pc = "loop" /\ LoopCond
  /\ ~(steps > maxSteps)
  /\ RejectAttempt(NextAttempt)
  /\ accepted' = FALSE
  /\ steps' = steps + 1
  /\ ncalls' = ncalls + 6
  /\ UNCHANGED <<other, pc, simVars, invoked, error, args, numPoints, rtol, atol, maxSteps, tOut, yOut, tCur,
                 xCur, outIdx, hMin, hMax, k1, term, sol>>

\* line 101: the loop condition fails
LoopExit ==
  /\ pc = "loop" /\ ~LoopCond
  /\ term' = "normal"
  /\ pc' = "exit"
  /\ UNCHANGED <<other, simVars, invoked, error, args, numPoints, rtol, atol, maxSteps, tOut, yOut, tCur, xCur,
                 outIdx, h, hMin, hMax, k1, steps, att, accepted, ncalls, sol>>

\* lines 163-168: the final fill and the return
SolveReturn ==
  /\ pc = "exit"
  /\ yOut' = FillRest(yOut, outIdx, numPoints, xCur)
  /\ sol' = [t |-> tOut, y |-> yOut']
  /\ pc' = IF entry = "simulate" THEN "post" ELSE "done"
  /\ UNCHANGED <<other, simVars, invoked, error, args, numPoints, rtol, atol, maxSteps, tOut, tCur, xCur,
                 outIdx, h, hMin, hMax, k1, steps, term, att, accepted, ncalls>>

Next ==
  \/ SimulateUnknownModel
  \/ SimulateBegin
  \/ SimulateEnd
  \/ SolveBegin
  \/ SolveThrow
  \/ BudgetExceeded
  \/ StepAccepted
  \/ StepRejected
  \/ LoopExit
  \/ SolveReturn

Spec == Init /\ [][Next]_vars

\* ------------------------------------------------------------------------
\* Fairness.  solve and simulate are sequential: a call that has neither
\* returned nor thrown executes its next statement.  Every action moves pc
\* or counts a loop iteration (line 102, steps++), so the progress of a
\* running call is a change of <<pc, steps>>.
\* ------------------------------------------------------------------------
Running  == pc \notin {"done", "thrown"}
PcValues == {"simulate", "solve", "loop", "exit", "post", "done", "thrown"}
Advance  == Running /\ pc' \in PcValues /\ steps' \in {steps, steps + 1}

FairSpec == Spec /\ WF_<<pc, steps>>(Advance)

\* ------------------------------------------------------------------------
\* Two runs.  Every variable of solve is declared inside the function
\* (solver.ts lines 70-99) and every variable of simulate inside simulate
\* (types.ts lines 219-262); the module-level constants (the tableau, the
\* registry) are never written.  A run therefore owns all of the state above,
\* and a second run that is interleaved with it is the same machine on its
\* own copy: the running run steps, or the two runs change places.
\* ------------------------------------------------------------------------
Context ==
  [pc |-> pc, entry |-> entry, config |-> config, model |-> model,
   signal |-> signal, windowFunc |-> windowFunc, invoked |-> invoked,
   result |-> result, error |-> error, args |-> args,
   numPoints |-> numPoints, rtol |-> rtol, atol |-> atol,
   maxSteps |-> maxSteps, tOut |-> tOut, yOut |-> yOut, tCur |-> tCur,
   xCur |-> xCur, outIdx |-> outIdx, h |-> h, hMin |-> hMin, hMax |-> hMax,
   k1 |-> k1, steps |-> steps, term |-> term, att |-> att,
   accepted |-> accepted, ncalls |-> ncalls, sol |-> sol]

\* the state of a run that has been called and has not started
StartContext(e, c, a) ==
  [pc |-> e, entry |-> e, config |-> c, model |-> "unset",
   signal |-> UnbuiltSignal, windowFunc |-> UnbuiltWindow,
   invoked |-> (e = "solve"), result |-> NoResult, error |-> "", args |-> a,
   numPoints |-> 0, rtol |-> Zero, atol |-> Zero, maxSteps |-> 0,
   tOut |-> NewArray(0), yOut |-> NewArray(0), tCur |-> Zero, xCur |-> Zero,
   outIdx |-> 0, h |-> Zero, hMin |-> Zero, hMax |-> Zero, k1 |-> Zero,
   steps |-> 0, term |-> "none", att |-> <<>>, accepted |-> FALSE,
   ncalls |-> 0, sol |-> [t |-> NewArray(0), y |-> NewArray(0)]]

\* a Yakopcic configuration whose sweep crosses both thresholds, with a
\* window configuration added
YkWindowed(w) ==
  [YkConfig("triangle", <<MaxPoints>>) EXCEPT
     !.signalParams = [vp |-> Dec(3, -1), vn |-> Dec(3, -1),
                       frequency |-> I(100)],
     !.tMax = Dec(2, -3),
     !.windowType = w[1], !.windowP = w[2], !.windowJ = w[3]]

\* the pairs of runs that are interleaved, each run <<entry, config, args>>:
\* two runs of one configuration, two Yakopcic runs that differ in the window
\* configuration, and runs that throw or run out of budget
HpRun == <<"simulate", HpConfig("sine", << <<"joglekar">>, <<I(2)>>, <<>> >>,
                                <<MaxPoints>>), NoCall>>
YkRun(w) == <<"simulate", YkWindowed(w), NoCall>>
UnknownRun(id) ==
  <<"simulate", [HpConfig("sine", << <<>>, <<>>, <<>> >>, <<MaxPoints>>)
                   EXCEPT !.modelId = id], NoCall>>
RejectRun ==
  <<"solve", NoConfig,
    Call(Const(NaN), <<Zero, Dec(5, -1)>>, Dec(25, -2), <<2>>, <<0>>)>>
AffineRun ==
  <<"solve", NoConfig,
    Call(Affine(I(-200), I(100)), <<Zero, Dec(5, -1)>>, Dec(25, -2), <<2>>,
         <<0>>)>>
ConcPairs ==
  { <<HpRun, HpRun>>,
    <<AffineRun, AffineRun>>,
    <<YkRun(<< <<>>, <<>>, <<>> >>), YkRun(<< <<"joglekar">>, <<I(2)>>, <<>> >>)>>,
    <<YkRun(<< <<"biolek">>, <<>>, <<>> >>), UnknownRun("nonexistent")>>,
    <<UnknownRun("constructor"), RejectRun>> }

ConcInit ==
  /\ \E r \in ConcPairs :
       /\ entry = r[1][1] /\ pc = r[1][1] /\ config = r[1][2] /\ args = r[1][3]
       /\ invoked = (r[1][1] = "solve")
       /\ other = StartContext(r[2][1], r[2][2], r[2][3])
  /\ model = "unset" /\ signal = UnbuiltSignal /\ windowFunc = UnbuiltWindow
  /\ result = NoResult /\ error = ""
  /\ numPoints = 0 /\ rtol = Zero /\ atol = Zero /\ maxSteps = 0
  /\ tOut = NewArray(0) /\ yOut = NewArray(0)
  /\ tCur = Zero /\ xCur = Zero /\ outIdx = 0
  /\ h = Zero /\ hMin = Zero /\ hMax = Zero
  /\ k1 = Zero /\ steps = 0
  /\ term = "none" /\ att = <<>> /\ accepted = FALSE /\ ncalls = 0
  /\ sol = [t |-> NewArray(0), y |-> NewArray(0)]

\* variant: the first slope k1 is one variable shared by the two runs
Switch_SharedSlope ==
  /\ other # <<>>
  /\ other' = [Context EXCEPT !.k1 = other.k1]
  /\ pc' = other.pc /\ entry' = other.entry /\ config' = other.config
  /\ model' = other.model /\ signal' = other.signal
  /\ windowFunc' = other.windowFunc /\ invoked' = other.invoked
  /\ result' = other.result /\ error' = other.error /\ args' = other.args
  /\ numPoints' = other.numPoints /\ rtol' = other.rtol /\ atol' = other.atol
  /\ maxSteps' = other.maxSteps /\ tOut' = other.tOut /\ yOut' = other.yOut
  /\ tCur' = other.tCur /\ xCur' = other.xCur /\ outIdx' = other.outIdx
  /\ h' = other.h /\ hMin' = other.hMin /\ hMax' = other.hMax
  /\ k1' = k1 /\ steps' = other.steps /\ term' = other.term
  /\ att' = other.att /\ accepted' = other.accepted
  /\ ncalls' = other.ncalls /\ sol' = other.sol

\* the running run is suspended and the other one resumes
Switch ==
  /\ other # <<>>
  /\ other' = Context
  /\ pc' = other.pc /\ entry' = other.entry /\ config' = other.config
  /\ model' = other.model /\ signal' = other.signal
  /\ windowFunc' = other.windowFunc /\ invoked' = other.invoked
  /\ result' = other.result /\ error' = other.error /\ args' = other.args
  /\ numPoints' = other.numPoints /\ rtol' = other.rtol /\ atol' = other.atol
  /\ maxSteps' = other.maxSteps /\ tOut' = other.tOut /\ yOut' = other.yOut
  /\ tCur' = other.tCur /\ xCur' = other.xCur /\ outIdx' = other.outIdx
  /\ h' = other.h /\ hMin' = other.hMin /\ hMax' = other.hMax
  /\ k1' = other.k1 /\ steps' = other.steps /\ term' = other.term
  /\ att' = other.att /\ accepted' = other.accepted
  /\ ncalls' = other.ncalls /\ sol' = other.sol

ConcNext == Next \/ Switch
ConcSpec == ConcInit /\ [][ConcNext]_vars

\* ------------------------------------------------------------------------
\* Properties
\* ------------------------------------------------------------------------
SolveReturned   == pc \in {"post", "done"}
InUnit(x)       == FLe(Zero, x) /\ FLe(x, I(1))
FiniteValued(f) == f.kind = "const" => IsFinite(f.b)
IsConst(f, b)   == f.kind = "const" /\ f.b = b
Close(a, b, tol) == FLe(FAbs(FSub(a, b)), tol)

\* C1: for a finite-valued f and any x0, span and signal, every element of
\* the state array returned by solve, and of simulate's stateVariable, lies
\* in [0, 1].
C1_StateInUnitInterval ==
  /\ (SolveReturned /\ FiniteValued(args.f)) =>
       \A i \in DOMAIN sol.y : InUnit(sol.y[i])
  /\ (pc = "done" /\ entry = "simulate") =>
       \A i \in DOMAIN result.stateVariable : InUnit(result.stateVariable[i])

\* C2, as stated: for numPoints >= 2 and tEnd > t0 the time array has
\* numPoints elements, t[0] = t0, t[i] = t0 + i * (tEnd - t0) / (numPoints - 1)
\* for i < numPoints - 1, the last element is tEnd exactly, the array is
\* strictly increasing, and the state array has the same length.
GridSpacing(t0, tEnd, n) == FDiv(FSub(tEnd, t0), I(n - 1))
GridShape(t, y, t0, tEnd, n) ==
  /\ DOMAIN t = 0..(n - 1)
  /\ DOMAIN y = 0..(n - 1)
  /\ t[0] = t0
  /\ \A i \in 0..(n - 2) : t[i] = FAdd(t0, FMul(I(i), GridSpacing(t0, tEnd, n)))
  /\ t[n - 1] = tEnd
Resolved(t0, tEnd, n) ==
  FGt(GridSpacing(t0, tEnd, n), FMul(Dec(1, -6), FMax(FAbs(t0), FAbs(tEnd))))
C3_UnknownModelRejected ==
  (entry = "simulate" /\ config.modelId \notin RegisteredIds
     /\ pc # "simulate") =>
    /\ pc = "thrown"
    /\ error = "Unknown model"
    /\ ~invoked
    /\ signal = UnbuiltSignal
    /\ windowFunc = UnbuiltWindow

\* C4: a successful simulate returns four sequences of length numPoints
\* (config.numPoints, or 10000 when absent); time and stateVariable are the
\* integrator's outputs, voltage[i] is the signal at time[i], and current[i]
\* is the model's current at voltage[i] and stateVariable[i].
ConfigSignal(t) ==
  LET sig == [type |-> config.signalType, vp |-> config.signalParams.vp,
              vn |-> config.signalParams.vn,
              freq |-> config.signalParams.frequency, tMax |-> config.tMax]
  IN IF config.signalType = "triangle" THEN TriangleSignal(sig, t)
     ELSE SineSignal(sig, t)
ConfigCurrent(v, x) ==
  IF config.modelId = "hp_labs" THEN HpCurrent(v, x, config.modelParams)
  ELSE YkCurrent(v, x, config.modelParams)
C4_SimulateResult ==
  (pc = "done" /\ entry = "simulate") =>
    LET n   == IF config.numPoints = <<>> THEN 10000 ELSE config.numPoints[1]
        idx == 0..(n - 1)
    IN /\ DOMAIN result.time = idx
       /\ DOMAIN result.voltage = idx
       /\ DOMAIN result.current = idx
       /\ DOMAIN result.stateVariable = idx
       /\ \A i \in idx :
            /\ result.time[i] = tOut[i]
            /\ result.stateVariable[i] = yOut[i]
            /\ result.voltage[i] = ConfigSignal(result.time[i])
            /\ result.current[i] =
                 ConfigCurrent(result.voltage[i], result.stateVariable[i])

\* C4, witness: simulate has returned the requested number of points for a
\* triangle signal, and a sample in the second half of the sweep has a
\* negative voltage and a negative current.
C4_Witness ==
  /\ pc = "done" /\ entry = "simulate"
  /\ config.numPoints = <<MaxPoints>>
  /\ config.signalType = "triangle"
  /\ DOMAIN result.voltage = 0..(MaxPoints - 1)
  /\ \E i \in DOMAIN result.voltage :
       /\ FGt(result.time[i], FDiv(config.tMax, I(2)))
       /\ FLt(result.voltage[i], Zero)
       /\ FLt(result.current[i], Zero)

\* C5: with f = 0 and x0 in [0, 1], every element of the state array that
\* solve returns equals x0 exactly, whatever the span and numPoints.
C5_ZeroRhsKeepsState ==
  (pc = "done" /\ entry = "solve" /\ IsConst(args.f, Zero) /\ InUnit(args.x0)) =>
    /\ DOMAIN sol.y = 0..(numPoints - 1)
    /\ \A i \in DOMAIN sol.y : sol.y[i] = args.x0

\* C5, witness: solve has run to the end of the span with f = 0 from
\* x0 = 0.25 and has filled several output points by interpolation.
C5_Witness ==
  /\ pc = "done" /\ entry = "solve" /\ IsConst(args.f, Zero)
  /\ args.x0 = Dec(25, -2)
  /\ term = "normal" /\ numPoints = MaxPoints /\ outIdx = numPoints
  /\ steps > 2

\* C6: with f = 1, x0 = 0 and 0 < tMax < 1, the last element of the state
\* array equals tMax within atol + rtol * tMax.
C6_LastElementIsTMax ==
  (pc = "done" /\ entry = "solve" /\ IsConst(args.f, I(1)) /\ args.x0 = Zero
     /\ args.tSpan[1] = Zero /\ FLt(Zero, args.tSpan[2])
     /\ FLt(args.tSpan[2], I(1)) /\ numPoints >= 2 /\ term = "normal") =>
    Close(sol.y[numPoints - 1], args.tSpan[2],
          FAdd(atol, FMul(rtol, args.tSpan[2])))

\* C7: with f = 1, once an output sample equals 1, every later sample
\* equals 1.
C7_SaturationSticks ==
  (pc = "done" /\ entry = "solve" /\ IsConst(args.f, I(1))
     /\ term = "normal") =>
    \A i \in DOMAIN sol.y : \A j \in DOMAIN sol.y :
      (i < j /\ sol.y[i] = I(1)) => sol.y[j] = I(1)

\* C8: the dense-output interpolant of an accepted step matches the step's
\* endpoints: at theta = 0 it yields the old state, at theta = 1 the new
\* state; each weight b_i(1) equals the tableau weight a7i, and b7(1) = 0.
WeightTol == Dec(1, -6)
C8_InterpolantEndpoints ==
  (pc = "loop" /\ accepted) =>
    /\ Interp(Zero, att.xCur, att.h, AttK(att)) = att.xCur
    /\ Close(Interp(I(1), att.xCur, att.h, AttK(att)), att.xNew,
             FMul(WeightTol, FMax(I(1), FAbs(att.xNew))))
    /\ Close(b1(I(1)), a71, WeightTol)
    /\ Close(b3(I(1)), a73, WeightTol)
    /\ Close(b4(I(1)), a74, WeightTol)
    /\ Close(b5(I(1)), a75, WeightTol)
    /\ Close(b6(I(1)), a76, WeightTol)
    /\ Close(b7(I(1)), Zero, WeightTol)

\* C9: when the step budget is exceeded before every slot is filled, the
\* loop stops and the last accepted clamped state xCur is written into
\* every unfilled slot; the filled slots are left as they are, and solve
\* returns the complete arrays of length numPoints without an error.
C9_BudgetFill ==
  [][ /\ (pc = "loop" /\ LoopCond /\ steps > maxSteps) =>
           /\ pc' = "exit"
           /\ DOMAIN yOut' = 0..(numPoints - 1)
           /\ \A i \in DOMAIN yOut :
                yOut'[i] = IF i >= outIdx THEN xCur ELSE yOut[i]
           /\ xCur' = xCur /\ tOut' = tOut /\ error' = ""
      /\ (pc = "exit" /\ term = "maxsteps") =>
           /\ pc' \in {"post", "done"}
           /\ sol'.y = yOut /\ sol'.t = tOut
           /\ DOMAIN sol'.y = 0..(numPoints - 1)
           /\ DOMAIN sol'.t = 0..(numPoints - 1)
           /\ error' = ""
    ]_vars

\* C9, witness: the budget was exceeded after a slot beyond the first had
\* been filled by interpolation and before the last one was.
C9_Witness ==
  /\ pc = "done" /\ term = "maxsteps"
  /\ outIdx > 1 /\ outIdx < numPoints
  /\ sol.y[outIdx - 1] # xCur
  /\ sol.y[numPoints - 1] = xCur

\* C10: for every f, also one whose steps are always rejected or whose
\* values are not finite, every span and every finite maxSteps, the loop
\* reaches a terminal state: t >= tEnd, the buffer full, or the budget
\* exceeded.  Every step of a running call moves pc or counts an
\* iteration, and a call in the loop leaves it.
C10_LoopTerminates ==
  /\ [][Running => (pc' # pc \/ steps' = steps + 1)]_vars
  /\ (pc = "loop") ~>
       (pc = "exit" /\ (term = "maxsteps" \/ ~LoopCond))

\* C10, witness: a right-hand side that is not finite, whose steps are all
\* rejected, has left the loop through the budget.
C10_Witness ==
  /\ pc = "exit" /\ term = "maxsteps"
  /\ args.f \in RejectSet
  /\ ~accepted /\ steps = maxSteps + 2

\* ------------------------------------------------------------------------
\* The functions called on their own: the signal closures, the window
\* closures, current and dxdt of a model, and the threshold function g.
\* entry names the function, args holds its arguments and result the value
\* it returns.
\* ------------------------------------------------------------------------
\* the times at which a signal of duration tMax is sampled; the third is the
\* flip point tMax / 2 and the fourth lies just after it
JustAfter == Dec(10001, -4)
SampleTimes(tMax) ==
  << FMul(tMax, Dec(1, -1)), FMul(tMax, Dec(25, -2)), FDiv(tMax, I(2)),
     FMul(FDiv(tMax, I(2)), JustAfter), FMul(tMax, Dec(6, -1)),
     FMul(tMax, Dec(9, -1)) >>

AmplitudeSet == { Zero, Dec(45, -2), I(1) }
SignalCalls ==
  { <<"signal", [signalType |-> st,
                 signalParams |-> [vp |-> vp, vn |-> vn, frequency |-> f],
                 tMax |-> tm, ts |-> SampleTimes(tm)]>> :
      st \in SignalTypes, vp \in AmplitudeSet, vn \in AmplitudeSet,
      f \in { I(1), I(2), I(100) }, tm \in { Dec(2, -2), Dec(5, -1), I(1) } }

WindowTypes == { "none", "joglekar", "biolek", "anusudha" }
WindowCalls ==
  { <<"window", [type |-> ty, p |-> wP, j |-> wJ, x |-> x, i |-> i]>> :
      ty \in WindowTypes,
      wP \in { <<>>, <<Dec(75, -2)>>, <<Dec(125, -2)>>, <<Dec(15, -1)>>,
               <<I(2)>>, <<I(3)>> },
      wJ \in { <<>>, <<Dec(5, -1)>> },
      x \in { Zero, Dec(25, -2), Dec(5, -1), I(1) },
      i \in { Dec(-1, -4), Zero, Dec(1, -4) } }

\* Yakopcic parameters with two different amplitudes, either sign of eta, and
\* thresholds at the default values or at the ends of their ranges
YkUnitParams ==
  { [YkParams EXCEPT !.a2 = Dec(5, -2), !.eta = eta, !.Vp = th[1], !.Vn = th[2]] :
      eta \in { I(1), I(-1) },
      th \in { <<Dec(16, -2), Dec(15, -2)>>, <<Dec(1, -3), I(5)>> } }
VoltageSet(pr) ==
  { Dec(-45, -2), FNeg(pr.Vn), Dec(-1, -1), Zero, Dec(1, -1), pr.Vp,
    Dec(45, -2) }
StateSet == { Zero, Dec(11, -2), Dec(3, -1), Dec(5, -1), I(1) }

CurrentCalls ==
  { <<"current", [model |-> "yakopcic", v |-> v, x |-> x, params |-> pr]>> :
      v \in { Dec(-45, -2), Dec(-1, -1), Zero, Dec(1, -1), Dec(45, -2) },
      x \in StateSet, pr \in YkUnitParams }
  \cup
  { <<"current", [model |-> "hp_labs", v |-> v, x |-> x, params |-> HpParams]>> :
      v \in { Dec(-1, -1), Zero, Dec(1, -1) }, x \in StateSet }

DxdtCalls ==
  UNION { { <<"dxdt", [model |-> "yakopcic", v |-> v, x |-> x, params |-> pr,
                       window |-> UndefinedWindow]>> :
              v \in VoltageSet(pr) \cup { I(-1000), I(1000) },
              x \in StateSet \cup { NaN } } :
          pr \in YkUnitParams }
  \cup
  { <<"dxdt", [model |-> "hp_labs", v |-> v, x |-> x, params |-> HpParams,
               window |-> createWindowFunction("joglekar", <<I(2)>>, <<>>)]>> :
      v \in { Dec(-1, -1), Zero, Dec(1, -1) }, x \in StateSet }
  \cup
  { <<"dxdt", [model |-> "hp_labs", v |-> v, x |-> x, params |-> HpParams,
               window |-> createWindowFunction("biolek", wP, <<>>)]>> :
      v \in { I(-1), Dec(-1, -4), Zero, Dec(1, -4), I(1) }, x \in StateSet,
      wP \in { <<>>, <<I(2)>>, <<I(3)>> } }

\* the distance from a threshold at which g is evaluated next to it
Near == Dec(1, -4)
ThresholdCalls ==
  UNION { { <<"g", [v |-> v, params |-> pr]>> :
              v \in VoltageSet(pr)
                    \cup { FAdd(pr.Vp, Near), FSub(FNeg(pr.Vn), Near) } } :
          pr \in YkUnitParams }

\* Yakopcic parameters with the switch points at the ends and inside of their
\* ranges, and the calls of fWindow at the boundaries and the switch points
YkSwitchParams ==
  { [YkParams EXCEPT !.xp = xp, !.xn = xn, !.eta = eta] :
      xp \in { Dec(1, -2), Dec(3, -1), Dec(99, -2) },
      xn \in { Dec(1, -2), Dec(12345678, -9), Dec(5, -1), Dec(99, -2) },
      eta \in { I(1), I(-1) } }
FWindowCalls ==
  UNION { { <<"fWindow", [v |-> v, x |-> x, params |-> pr]>> :
              v \in { I(-1), Zero, I(1) },
              x \in { Zero, pr.xp, FSub(I(1), pr.xn), I(1) } } :
          pr \in YkSwitchParams }

UnitCalls ==
  SignalCalls \cup WindowCalls \cup CurrentCalls \cup DxdtCalls
  \cup ThresholdCalls \cup FWindowCalls

UnitInit ==
  /\ \E c \in UnitCalls : entry = c[1] /\ args = c[2]
  /\ pc = "call" /\ config = NoConfig /\ invoked = FALSE
  /\ model = "unset" /\ signal = UnbuiltSignal /\ windowFunc = UnbuiltWindow
  /\ result = <<>> /\ error = ""
  /\ numPoints = 0 /\ rtol = Zero /\ atol = Zero /\ maxSteps = 0
  /\ tOut = NewArray(0) /\ yOut = NewArray(0)
  /\ tCur = Zero /\ xCur = Zero /\ outIdx = 0
  /\ h = Zero /\ hMin = Zero /\ hMax = Zero
  /\ k1 = Zero /\ steps = 0
  /\ term = "none" /\ att = <<>> /\ accepted = FALSE /\ ncalls = 0
  /\ sol = [t |-> NewArray(0), y |-> NewArray(0)]
  /\ other = <<>>

\* what a call leaves alone
UnitFrame ==
  UNCHANGED <<entry, config, model, windowFunc, invoked, error, args,
              solverVars, other>>

\* createTriangleSignal / createSineSignal and the closure called at each of
\* the times args.ts
CallSignal ==
  /\ pc = "call" /\ entry = "signal"
  /\ signal' = CreateSignal(args.signalType, args.signalParams, args.tMax)
  /\ result' = [n \in DOMAIN args.ts |-> Signal(signal', args.ts[n])]
  /\ pc' = "done"
  /\ UnitFrame

\* createWindowFunction(type, p, j) and the closure called with (x, i)
CallWindow ==
  /\ pc = "call" /\ entry = "window"
  /\ result' = WindowValue(createWindowFunction(args.type, args.p, args.j),
                           args.x, args.i)
  /\ pc' = "done"
  /\ UNCHANGED signal /\ UnitFrame

\* model.current(v, x, params)
CallCurrent ==
  /\ pc = "call" /\ entry = "current"
  /\ result' = ModelCurrent(args.model, args.v, args.x, args.params)
  /\ pc' = "done"
  /\ UNCHANGED signal /\ UnitFrame

\* model.dxdt(t, x, vFunc, params, windowFunc) for a vFunc whose value at t
\* is args.v
CallDxdt ==
  /\ pc = "call" /\ entry = "dxdt"
  /\ result' = ModelRate(args.model, args.v, args.x, args.params, args.window)
  /\ pc' = "done"
  /\ UNCHANGED signal /\ UnitFrame

\* g(v, Ap, An, Vp, Vn)
CallThreshold ==
  /\ pc = "call" /\ entry = "g"
  /\ result' = g(args.v, args.params.Ap, args.params.An, args.params.Vp,
                 args.params.Vn)
  /\ pc' = "done"
  /\ UNCHANGED signal /\ UnitFrame

\* fWindow(v, x, alphap, alphan, xp, xn, eta)
CallFWindow ==
  /\ pc = "call" /\ entry = "fWindow"
  /\ result' = fWindow(args.v, args.x, args.params.alphap, args.params.alphan,
                       args.params.xp, args.params.xn, args.params.eta)
  /\ pc' = "done"
  /\ UNCHANGED signal /\ UnitFrame

UnitNext ==
  \/ CallSignal
  \/ CallWindow
  \/ CallCurrent
  \/ CallDxdt
  \/ CallThreshold
  \/ CallFWindow

UnitSpec == UnitInit /\ [][UnitNext]_vars

\* C11: two runs that were called with equal arguments end alike, whatever
\* the order in which their steps were interleaved (the orders in which one
\* of them runs from its call to its return without interruption included):
\* both return or both throw, with equal results, errors and solutions
Ended(p) == p \in {"done", "thrown"}
TriangleSampled ==
  /\ entry = "signal" /\ pc = "done" /\ args.signalType = "triangle"

\* C12: for the triangle signal with vp = vn the voltage at the flip point
\* tMax / 2 and the voltage just after it differ by no more than the slope
\* of the triangle, 4 * vp * frequency, allows over that distance (with a
\* margin of a thousandth of the amplitude for rounding)
C12_ContinuousAtFlip ==
  (TriangleSampled /\ args.signalParams.vp = args.signalParams.vn)
  => FLe(FAbs(FSub(result[4], result[3])),
         FMul(args.signalParams.vp,
              FAdd(FMul(FMul(I(4), args.signalParams.frequency),
                        FSub(args.ts[4], args.ts[3])),
                   Dec(1, -3))))

\* the value the sweep is said to have at time t: vp * |saw| up to the flip
\* point and -vn * |saw| after it
SweepValue(sp, tMax, t, saw) ==
  IF FLe(t, FDiv(tMax, I(2))) THEN FMul(sp.vp, saw) ELSE FMul(FNeg(sp.vn), saw)
SweepAt(sp, tMax, t) ==
  SweepValue(sp, tMax, t,
    FAbs(sawtooth(FAdd(FMul(FMul(TwoPi, sp.frequency), t), HalfPi))))

\* C13: for the triangle signal with vp, vn >= 0 the voltage at every time
\* t <= tMax / 2 is vp * |saw(t)| and at every time t > tMax / 2 it is
\* -vn * |saw(t)|, saw being the symmetric triangle of phase
\* 2 pi f t + pi / 2
C13_FlipAtHalfRun ==
  TriangleSampled
  => \A n \in DOMAIN args.ts :
       result[n] = SweepAt(args.signalParams, args.tMax, args.ts[n])

\* a window closure has been called with a state x in [0, 1]
WindowCalled ==
  /\ entry = "window" /\ pc = "done"
  /\ FGe(args.x, Zero) /\ FLe(args.x, I(1))

\* C14: for every window type, every p and j, every current i and every x in
\* [0, 1] the window function returns a finite number
C14_WindowFinite == WindowCalled => IsFinite(result)

\* C15: for the Joglekar window with p >= 1 and any current i, F(0) = 0,
\* F(1) = 0 and F(0.5) = 1
C15_JoglekarValues ==
  (/\ WindowCalled /\ args.type = "joglekar"
   /\ FGe(Opt(args.p, I(1)), I(1)))
  => /\ args.x = Zero => result = Zero
     /\ args.x = I(1) => result = Zero
     /\ args.x = Dec(5, -1) => result = I(1)

\* current of the Yakopcic model has been called
YkCurrentCalled ==
  /\ entry = "current" /\ pc = "done" /\ args.model = "yakopcic"

\* C16: the Yakopcic current is a1 * x * sinh(b * V) for every V >= 0, V = 0
\* included, and a2 * x * sinh(b * V) for every V < 0
C16_CurrentAmplitude ==
  YkCurrentCalled
  => /\ FGe(args.v, Zero)
          => result = FMul(FMul(args.params.a1, args.x),
                           FSinh(FMul(args.params.b, args.v)))
     /\ FLt(args.v, Zero)
          => result = FMul(FMul(args.params.a2, args.x),
                           FSinh(FMul(args.params.b, args.v)))
C16_Witness ==
  /\ YkCurrentCalled /\ FLt(args.v, Zero)
  /\ args.params.a1 # args.params.a2
  /\ FLt(result, Zero)
  /\ result # FMul(FMul(args.params.a1, args.x),
                   FSinh(FMul(args.params.b, args.v)))

\* dxdt of the Yakopcic model has been called with a voltage inside the
\* threshold band [-Vn, Vp], and g next to a threshold
YkInBand ==
  /\ entry = "dxdt" /\ pc = "done" /\ args.model = "yakopcic"
  /\ FGe(args.params.Vp, Zero) /\ FGe(args.params.Vn, Zero)
  /\ FGe(args.v, FNeg(args.params.Vn)) /\ FLe(args.v, args.params.Vp)
ThresholdCalled == entry = "g" /\ pc = "done"

\* C17: the state derivative of the Yakopcic model is exactly 0 for every
\* voltage with -Vn <= V <= Vp, the two thresholds included, for every state
\* and either sign of eta; and next to a threshold, at distance Near outside
\* the band, |g| is no more than the amplitude times e^threshold times twice
\* that distance, so g has no jump at the threshold
C17_ZeroInBand ==
  /\ YkInBand => result = Zero
  /\ (ThresholdCalled /\ args.v = FAdd(args.params.Vp, Near))
       => FLe(FAbs(result),
              FMul(FMul(args.params.Ap, FExp(args.params.Vp)),
                   FMul(I(2), Near)))
  /\ (ThresholdCalled /\ args.v = FSub(FNeg(args.params.Vn), Near))
       => FLe(FAbs(result),
              FMul(FMul(args.params.An, FExp(args.params.Vn)),
                   FMul(I(2), Near)))
C17_Witness ==
  /\ YkInBand /\ args.v = args.params.Vp /\ args.params.eta = I(-1)
  /\ args.x = Dec(5, -1) /\ result = Zero

\* a configuration without its window fields
WithoutWindow(c) ==
  [c EXCEPT !.windowType = <<>>, !.windowP = <<>>, !.windowJ = <<>>]
\* two finished runs of simulate for the Yakopcic model whose configurations
\* differ at most in the window fields
YkPairDone ==
  /\ other # <<>> /\ pc = "done" /\ other.pc = "done"
  /\ entry = "simulate" /\ other.entry = "simulate"
  /\ config.modelId = "yakopcic"
  /\ WithoutWindow(config) = WithoutWindow(other.config)

\* C18: for modelId 'yakopcic' two configurations that differ only in
\* windowType, windowP or windowJ (windowType absent included) give identical
\* time, voltage, current and stateVariable sequences
C18_WindowIgnored == YkPairDone => result = other.result
C18_Witness ==
  /\ YkPairDone
  /\ {config.windowType, other.config.windowType} = { <<>>, <<"joglekar">> }
  /\ result = other.result
  /\ \E n \in DOMAIN result.stateVariable :
       result.stateVariable[n] # config.x0

\* C19: at every step attempt the step size h actually used satisfies
\* tCur + h <= tEnd, so no stage is evaluated at a time beyond tEnd and no
\* accepted time exceeds tEnd, also when tEnd - tCur is smaller than hMin
C19_NoOvershoot ==
  att # <<>>
  => /\ FLe(FAdd(att.tCur, att.h), args.tSpan[2])
     /\ \A n \in DOMAIN att.ts : FLe(att.ts[n], args.tSpan[2])
     /\ FLe(tCur, args.tSpan[2])

\* the growth factor clamp(0.9 * e^(-1/5), 0.2, 5.0) of the step size for an
\* error ratio e >= 0; e^(-1/5) is unbounded as e tends to 0, so the factor
\* at e = 0 is the upper limit
GrowthFactor(e) ==
  IF e = Zero THEN I(5)
  ELSE FMin(I(5), FMax(Dec(2, -1), FMul(Dec(9, -1), PowNegFifth(e))))
\* x clamped to [lo, hi]
ClampTo(x, lo, hi) == FMax(lo, FMin(hi, x))

\* C20: after every step attempt, accepted or rejected, with step size
\* att.h and error ratio e >= 0, the next step size is
\* att.h * clamp(0.9 * e^(-1/5), 0.2, 5.0) clamped to [hMin, hMax], where
\* hMin = (tEnd - t0) * 1e-12 and hMax = (tEnd - t0) * 0.1, and the growth
\* factor for e = 0 is 5.0
C20_NextStepSize ==
  (att # <<>> /\ FGe(att.errNorm, Zero))
  => h = ClampTo(FMul(att.h, GrowthFactor(att.errNorm)),
                 FMul(FSub(args.tSpan[2], args.tSpan[1]), Dec(1, -12)),
                 FMul(FSub(args.tSpan[2], args.tSpan[1]), Dec(1, -1)))

\* the error ratio |err| / (atol + rtol * max(|x_old|, |x_new|)) of the last
\* attempt
ErrorRatio ==
  FDiv(FAbs(att.err),
       FAdd(atol, FMul(rtol, FMax(FAbs(att.xCur), FAbs(att.xNew)))))

\* C21: a step attempt is accepted if and only if its error ratio is <= 1;
\* on acceptance the current time is the time of the attempt plus the
\* attempted h and the current state is x_new clamped to [0, 1]
C21_AcceptanceRule ==
  att # <<>>
  => /\ accepted <=> FLe(ErrorRatio, I(1))
     /\ accepted => /\ tCur = FAdd(att.tCur, att.h)
                    /\ xCur = clamp01(att.xNew)
C21_Witness ==
  /\ att # <<>> /\ accepted
  /\ FGt(ErrorRatio, Zero) /\ FLe(ErrorRatio, I(1))
  /\ FGt(att.xNew, I(1)) /\ xCur = I(1)
  /\ FGt(tCur, att.tCur)

\* C22: for a finite f and any x0, the state argument of every call of f
\* (the initial slope at the clamped x0, and the stages k2..k7 of every
\* attempt) lies in [0, 1], and so does xCur at every point of the run
C22_ArgumentsInUnitInterval ==
  (entry = "solve" /\ pc \in {"loop", "exit", "done"} /\ FiniteValued(args.f))
  => /\ InUnit(clamp01(args.x0))
     /\ InUnit(xCur)
     /\ att # <<>> => \A n \in DOMAIN AttX(att) : InUnit(AttX(att)[n])

\* C23: at the start of every step attempt the first slope k1 equals
\* f(tCur, xCur): after an accepted step it is the 7th slope of that step,
\* evaluated at the new time and the clamped new state, after a rejected step
\* it is the unchanged slope of the unchanged (tCur, xCur); f is called 6
\* times per step attempt and once before the loop
C23_FirstSameAsLast ==
  (pc = "loop")
  => /\ k1 = Rhs(args.f, tCur, xCur)
     /\ ncalls = 1 + 6 * steps
     /\ att # <<>> =>
          IF accepted
          THEN /\ k1 = att.stages[12]
               /\ att.ts[6] = tCur /\ att.stages[11] = xCur
          ELSE /\ k1 = att.k1 /\ tCur = att.tCur /\ xCur = att.xCur
C23_Witness ==
  /\ pc = "loop" /\ att # <<>> /\ accepted /\ steps >= 2
  /\ k1 = att.stages[12] /\ k1 # att.k1
  /\ k1 = Rhs(args.f, tCur, xCur)
  /\ ncalls = 1 + 6 * steps

\* the local fraction of output slot i in the step of attempt at
ThetaOf(at, i) == FDiv(FSub(tOut[i], at.tCur), at.h)
\* a loop iteration that made a step attempt
AttemptMade == pc = "loop" /\ pc' = "loop" /\ steps' = steps + 1
\* the slots outIdx..outIdx' - 1 are those that a step from tCur to tCur'
\* reaches: each lies in (tCur, tCur'], and the next slot does not
FilledAreReached ==
  /\ \A i \in outIdx..(outIdx' - 1) : FLt(tCur, tOut[i]) /\ FLe(tOut[i], tCur')
  /\ outIdx' < numPoints =>
       ~(FLt(tCur, tOut[outIdx']) /\ FLe(tOut[outIdx'], tCur'))
\* the slots are filled in index order from outIdx on, the others are kept,
\* a rejected step fills none, and an accepted step fills the slots it
\* reaches, each with theta in (0, 1]
FillsInOrder ==
  /\ outIdx' >= outIdx
  /\ \A i \in DOMAIN yOut : (i < outIdx \/ i >= outIdx') => yOut'[i] = yOut[i]
  /\ ~accepted' => (outIdx' = outIdx /\ yOut' = yOut)
  /\ accepted' =>
       /\ FilledAreReached
       /\ \A i \in outIdx..(outIdx' - 1) :
            FLt(Zero, ThetaOf(att', i)) /\ FLe(ThetaOf(att', i), I(1))

Attempts == (ncalls - 1) \div 6

\* C25: in any run of solve the number of step attempts, accepted plus
\* rejected, never exceeds maxSteps
C25_AttemptsWithinBudget ==
  pc \in {"loop", "exit", "post", "done"} => Attempts <= maxSteps

\* the Biolek window has been called with an integer p >= 1
BiolekCalled ==
  /\ WindowCalled /\ args.type = "biolek"
  /\ IsInt(Opt(args.p, I(1))) /\ FGe(Opt(args.p, I(1)), I(1))
\* dxdt of the HP Labs model has been called with such a window
HpBiolekCalled ==
  /\ entry = "dxdt" /\ pc = "done" /\ args.model = "hp_labs"
  /\ args.window.kind = "biolek"
  /\ IsInt(args.window.p) /\ FGe(args.window.p, I(1))

\* C26: the Biolek window with integer p >= 1 vanishes only at the boundary
\* the state drifts towards: F(1, i) = 0 and F(0, i) = 1 for i >= 0,
\* F(0, i) = 0 and F(1, i) = 1 for i < 0, and F is not 0 inside (0, 1); with
\* the HP Labs model the derivative at x = 1 is negative for a negative
\* voltage and the derivative at x = 0 is positive for a positive voltage
C26_BiolekReleases ==
  /\ BiolekCalled =>
       /\ (FGe(args.i, Zero) /\ args.x = I(1)) => result = Zero
       /\ (FGe(args.i, Zero) /\ args.x = Zero) => result = I(1)
       /\ (FLt(args.i, Zero) /\ args.x = Zero) => result = Zero
       /\ (FLt(args.i, Zero) /\ args.x = I(1)) => result = I(1)
       /\ (FGt(args.x, Zero) /\ FLt(args.x, I(1))) => FGt(result, Zero)
  /\ HpBiolekCalled =>
       /\ (args.x = I(1) /\ FLt(args.v, Zero)) => FLt(result, Zero)
       /\ (args.x = Zero /\ FGt(args.v, Zero)) => FGt(result, Zero)
C26_Witness ==
  /\ HpBiolekCalled /\ args.window.p = I(2)
  /\ args.x = I(1) /\ args.v = Dec(-1, -4) /\ FLt(result, Zero)

\* C27: a rejected step attempt changes the step size and the step counter
\* only: the current time, the current state, the stored first slope, the
\* next output index, the output samples and all the rest of the run's data
\* are the same after the rejection as before it
C27_RejectionKeepsState ==
  [][(AttemptMade /\ ~accepted')
     => /\ steps' = steps + 1
        /\ tCur' = tCur /\ xCur' = xCur /\ k1' = k1
        /\ outIdx' = outIdx /\ yOut' = yOut /\ tOut' = tOut
        /\ UNCHANGED <<numPoints, rtol, atol, maxSteps, hMin, hMax, args, sol,
                       result, error>>]_vars
C27_Witness ==
  /\ pc = "loop" /\ att # <<>> /\ ~accepted
  /\ outIdx >= 2 /\ steps >= 2
  /\ IsFinite(att.errNorm) /\ FGt(att.errNorm, I(1))
  /\ FLt(h, att.h)
  /\ tCur = att.tCur /\ xCur = att.xCur /\ k1 = att.k1
  /\ att.stages[12] # att.k1

\* the run integrates the HP Labs model with the Joglekar window for an
\* integer p >= 1, and its current state is at a boundary
HpJoglekarRun ==
  /\ args.f.kind = "model" /\ args.f.model = "hp_labs"
  /\ args.f.window.kind = "joglekar"
  /\ IsInt(args.f.window.p) /\ FGe(args.f.window.p, I(1))
AtBoundary == xCur = Zero \/ xCur = I(1)

\* C29: for the HP Labs model with the Joglekar window (integer p >= 1), once
\* the current state xCur is 0 or 1 at the start of a step, it keeps that
\* value in every later step, and every output sample written from then on
\* (by interpolation, by the budget fill or by the final fill) equals it
C29_BoundaryAbsorbs ==
  [][(pc \in {"loop", "exit"} /\ HpJoglekarRun /\ AtBoundary)
     => /\ xCur' = xCur
        /\ \A i \in DOMAIN yOut' :
             (i >= outIdx /\ (i < outIdx' \/ pc' # "loop")) => yOut'[i] = xCur]_vars
C29_Witness ==
  /\ pc = "post" /\ HpJoglekarRun /\ xCur = I(1)
  /\ args.x0 = I(1) /\ steps >= 3 /\ outIdx = numPoints
  /\ \E n \in DOMAIN att.ts : Signal(args.f.signal, att.ts[n]) # Zero
  /\ \A i \in DOMAIN sol.y : sol.y[i] = I(1)

\* dxdt of the Yakopcic model has been called with Ap, An > 0, Vp, Vn >= 0,
\* xp, xn in (0, 1) and eta = +1 or -1; fWindow has been called
YkDxdtCalled ==
  /\ entry = "dxdt" /\ pc = "done" /\ args.model = "yakopcic"
  /\ FGt(args.params.Ap, Zero) /\ FGt(args.params.An, Zero)
  /\ FGe(args.params.Vp, Zero) /\ FGe(args.params.Vn, Zero)
FWindowCalled == entry = "fWindow" /\ pc = "done"
Increasing == FGe(FMul(args.params.eta, args.v), Zero)
SwitchTol == Dec(1, -6)

\* C30: for the Yakopcic model the state derivative never points out of the
\* domain: for every voltage dx/dt <= 0 at x = 1 and dx/dt >= 0 at x = 0;
\* fWindow is 0 at x = 1 on the increasing branch (eta * V >= 0) and 0 at
\* x = 0 on the decreasing branch, and it is 1 (up to rounding) at the switch
\* point of each branch, x = xp on the increasing one and x = 1 - xn on the
\* decreasing one
C30_DerivativePointsInward ==
  /\ (YkDxdtCalled /\ args.x = I(1)) => FLe(result, Zero)
  /\ (YkDxdtCalled /\ args.x = Zero) => FGe(result, Zero)
  /\ (FWindowCalled /\ Increasing /\ args.x = I(1)) => result = Zero
  /\ (FWindowCalled /\ ~Increasing /\ args.x = Zero) => result = Zero
  /\ (FWindowCalled /\ Increasing /\ args.x = args.params.xp)
       => Close(result, I(1), SwitchTol)
  /\ (FWindowCalled /\ ~Increasing /\ args.x = FSub(I(1), args.params.xn))
       => Close(result, I(1), SwitchTol)

\* ------------------------------------------------------------------------
\* The simulation store (stores/simulation.ts).  The store holds the
\* configuration fields in config and the latest result and error in result
\* and error; null is <<>>, a value v is <<v>>.  entry is the action called
\* last, and pc tells whether it returned or threw.  The result of a call
\* of simulate that returns is written by the call of solve it stands for:
\* simulate is a function of its configuration only, and builds that call
\* from it (types.ts lines 219-246).
\* ------------------------------------------------------------------------
\* engine/presets.ts: the predefined experiments
YkPreset(id, st, sp, a1, a2, b, thr, shape, x0, tMax) ==
  [id |-> id, modelId |-> "yakopcic", signalType |-> st, signalParams |-> sp,
   modelParams |-> [a1 |-> a1, a2 |-> a2, b |-> b,
                    Ap |-> thr[1], An |-> thr[2], Vp |-> thr[3], Vn |-> thr[4],
                    alphap |-> shape[1], alphan |-> shape[2],
                    xp |-> shape[3], xn |-> shape[4], eta |-> I(1)],
   x0 |-> x0, tMax |-> tMax,
   windowType |-> <<>>, windowP |-> <<>>, windowJ |-> <<>>]
HpPreset(id, st, sp, mp, x0, tMax, wP) ==
  [id |-> id, modelId |-> "hp_labs", signalType |-> st, signalParams |-> sp,
   modelParams |-> mp, x0 |-> x0, tMax |-> tMax,
   windowType |-> <<"joglekar">>, windowP |-> <<wP>>, windowJ |-> <<>>]
SigParams(vp, vn, fr) == [vp |-> vp, vn |-> vn, frequency |-> fr]
PRESETS ==
  << HpPreset("hp_sine", "sine", SigParams(I(1), I(1), I(1)),
              [D |-> Dec(27, -9), RON |-> Dec(10, 3), ROFF |-> Dec(100, 3),
               muD |-> Dec(1, -14)], Dec(1, -1), I(2), I(7)),
     HpPreset("hp_pulsed", "triangle", SigParams(I(1), I(1), Dec(5, -1)),
              [D |-> Dec(85, -9), RON |-> Dec(1, 3), ROFF |-> Dec(10, 3),
               muD |-> Dec(2, -14)], Dec(93, -3), I(8), I(2)),
     YkPreset("oblea_sine", "sine",
              SigParams(Dec(45, -2), Dec(45, -2), I(100)),
              Dec(17, -2), Dec(17, -2), Dec(5, -2),
              <<I(4000), I(4000), Dec(16, -2), Dec(15, -2)>>,
              <<I(1), I(5), Dec(3, -1), Dec(5, -1)>>, Dec(11, -2), Dec(40, -3)),
     YkPreset("oblea_pulsed", "triangle",
              SigParams(Dec(25, -2), Dec(25, -2), I(100)),
              Dec(97, -3), Dec(97, -3), Dec(5, -2),
              <<I(4000), I(4000), Dec(16, -2), Dec(15, -2)>>,
              <<I(1), I(5), Dec(3, -1), Dec(5, -1)>>, Dec(1, -3), Dec(50, -3)),
     YkPreset("miao", "triangle",
              SigParams(Dec(75, -2), Dec(125, -2), FDiv(I(1), I(20))),
              Dec(11, -2), Dec(11, -2), Dec(5, -1),
              <<Dec(75, -1), I(2), Dec(9, -2), Dec(75, -2)>>,
              <<I(1), I(5), Dec(3, -1), Dec(5, -1)>>, Dec(11, -2), I(20)),
     YkPreset("jo", "triangle", SigParams(I(4), I(2), FDiv(I(1), I(5))),
              Dec(37, -8), Dec(435, -9), Dec(7, -1),
              <<Dec(5, -3), Dec(8, -2), Dec(15, -1), Dec(5, -1)>>,
              <<Dec(12, -1), I(3), Dec(2, -1), Dec(5, -1)>>, Dec(1, -1), I(20)) >>

\* lines 196-206 (and 101-111): the configuration fields of a preset
PresetState(p) ==
  [modelId |-> p.modelId, modelParams |-> p.modelParams,
   signalType |-> p.signalType, signalParams |-> p.signalParams,
   x0 |-> p.x0, tMax |-> p.tMax,
   windowType |-> Opt(p.windowType, "joglekar"),
   windowP |-> Opt(p.windowP, I(1)), windowJ |-> Opt(p.windowJ, I(1))]

\* lines 80-90: the configuration that runSim hands to simulate
SimConfigOf(s) ==
  [modelId |-> s.modelId, modelParams |-> s.modelParams,
   signalType |-> s.signalType, signalParams |-> s.signalParams,
   x0 |-> s.x0, tMax |-> s.tMax, numPoints |-> <<>>,
   windowType |-> IF s.modelId = "hp_labs" THEN <<s.windowType>> ELSE <<>>,
   windowP |-> <<s.windowP>>, windowJ |-> <<s.windowJ>>]

\* types.ts lines 224-246: the call of solve that simulate builds
SolveCallOf(c) ==
  Call([kind |-> "model", model |-> Lookup(c.modelId),
        signal |-> CreateSignal(c.signalType, c.signalParams, c.tMax),
        params |-> c.modelParams,
        window |-> IF c.windowType = <<>> THEN UndefinedWindow
                   ELSE createWindowFunction(c.windowType[1], c.windowP,
                                             c.windowJ)],
       <<Zero, c.tMax>>, c.x0, <<Opt(c.numPoints, DefaultSimPoints)>>, <<>>)

\* lines 79-95, runSim: simulate throws for an id that the registry does not
\* know (types.ts lines 219-222) and for one that yields an inherited member
\* without dxdt (line 240, on the first call of rhs); otherwise it returns
RunSimOf(c, call) ==
  IF Lookup(c.modelId) = "undefined"
  THEN [result |-> <<>>, error |-> << <<"Unknown model: ", c.modelId>> >>]
  ELSE IF RhsThrows(call.f)
  THEN [result |-> <<>>, error |-> << <<"TypeError">> >>]
  ELSE [result |-> <<[solved |-> call]>>, error |-> <<>>]
runSim(s) == RunSimOf(SimConfigOf(s), SolveCallOf(SimConfigOf(s)))

\* the arguments of the actions
ModelIdInputs     == RegisteredIds \cup { "nonexistent", "constructor" }
ParamInputs       == { <<"RON", Dec(5, 3)>>, <<"eta", I(-1)>> }
SignalParamInputs == { <<"vp", I(2)>> }
X0Inputs          == { Dec(5, -1) }
TMaxInputs        == { I(1) }
WindowTypeInputs  == { "biolek" }
WindowPInputs     == { I(2) }
WindowJInputs     == { Dec(5, -1) }
PresetInputs ==
  { PRESETS[n] : n \in DOMAIN PRESETS }
  \cup { [PRESETS[1] EXCEPT !.id = "custom", !.modelId = id] :
           id \in { "nonexistent", "constructor" } }

\* lines 97-118: the store as created, with the simulation of the first
\* preset
StoreInit ==
  /\ entry = "create" /\ pc = "returned"
  /\ config = PresetState(PRESETS[1])
  /\ result = runSim(PresetState(PRESETS[1])).result
  /\ error = runSim(PresetState(PRESETS[1])).error
  /\ args = NoCall /\ invoked = FALSE
  /\ model = "unset" /\ signal = UnbuiltSignal /\ windowFunc = UnbuiltWindow
  /\ numPoints = 0 /\ rtol = Zero /\ atol = Zero /\ maxSteps = 0
  /\ tOut = NewArray(0) /\ yOut = NewArray(0)
  /\ tCur = Zero /\ xCur = Zero /\ outIdx = 0
  /\ h = Zero /\ hMin = Zero /\ hMax = Zero
  /\ k1 = Zero /\ steps = 0
  /\ term = "none" /\ att = <<>> /\ accepted = FALSE /\ ncalls = 0
  /\ sol = [t |-> NewArray(0), y |-> NewArray(0)]
  /\ other = <<>>

\* what the store's actions leave alone
StoreFrame ==
  UNCHANGED <<model, signal, windowFunc, invoked, args, solverVars, other>>
\* set({ ...fields, result, error }): stored holds the fields after the merge
StoreSet(stored, out) ==
  /\ pc' = "returned"
  /\ config' = stored
  /\ result' = out.result /\ error' = out.error
  /\ StoreFrame
\* an action that changes nothing: it returns early, or it throws
StoreKept(how) ==
  /\ pc' = how
  /\ UNCHANGED <<config, result, error>>
  /\ StoreFrame

\* { ...record, [name]: value }
Put(rec, name, value) ==
  [k \in DOMAIN rec \cup {name} |-> IF k = name THEN value ELSE rec[k]]
\* PRESETS.find(p => p.modelId === modelId): <<>> when there is none
FindPreset(id) ==
  IF \E n \in DOMAIN PRESETS : PRESETS[n].modelId = id
  THEN <<PRESETS[CHOOSE n \in DOMAIN PRESETS :
                   /\ PRESETS[n].modelId = id
                   /\ \A m \in 1..(n - 1) : PRESETS[m].modelId # id]>>
  ELSE <<>>
\* lines 57-66, defaultParams for a registered model
defaultParams(id) == IF id = "hp_labs" THEN HpParams ELSE YkParams
\* lines 126-138: newState of setModel for the preset found, if any
ModelState(s, id, found) ==
  IF found = <<>>
  THEN [s EXCEPT !.modelId = id, !.modelParams = defaultParams(id),
                 !.x0 = Dec(1, -1), !.tMax = I(1), !.windowType = "joglekar",
                 !.windowP = I(1), !.windowJ = I(1)]
  ELSE [PresetState(found[1]) EXCEPT !.modelId = id]

\* lines 120-141
SetModel ==
  \E id \in ModelIdInputs :
    /\ entry' = "setModel"
    /\ IF Lookup(id) = "inherited" THEN StoreKept("thrown")
       ELSE IF Lookup(id) = "undefined" THEN StoreKept("returned")
       ELSE StoreSet(ModelState(config, id, FindPreset(id)),
                     runSim(ModelState(config, id, FindPreset(id))))
\* lines 143-150
SetModelParam ==
  \E nv \in ParamInputs :
    /\ entry' = "setModelParam"
    /\ StoreSet([config EXCEPT !.modelParams = Put(config.modelParams, nv[1], nv[2])],
                runSim([config EXCEPT
                          !.modelParams = Put(config.modelParams, nv[1], nv[2])]))
\* lines 152-156
SetSignalType ==
  \E st \in SignalTypes :
    /\ entry' = "setSignalType"
    /\ StoreSet([config EXCEPT !.signalType = st],
                runSim([config EXCEPT !.signalType = st]))
\* lines 158-163
SetSignalParam ==
  \E nv \in SignalParamInputs :
    /\ entry' = "setSignalParam"
    /\ StoreSet([config EXCEPT !.signalParams = Put(config.signalParams, nv[1], nv[2])],
                runSim([config EXCEPT
                          !.signalParams = Put(config.signalParams, nv[1], nv[2])]))
\* variant: the simulation is run on get() before the new x0 is merged in
SetX0_Stale ==
  \E x0 \in X0Inputs :
    /\ entry' = "setX0"
    /\ StoreSet([config EXCEPT !.x0 = x0], runSim(config))
\* lines 165-169
SetX0 ==
  \E x0 \in X0Inputs :
    /\ entry' = "setX0"
    /\ StoreSet([config EXCEPT !.x0 = x0],
                runSim([config EXCEPT !.x0 = x0]))
\* lines 171-175
SetTMax ==
  \E tMax \in TMaxInputs :
    /\ entry' = "setTMax"
    /\ StoreSet([config EXCEPT !.tMax = tMax],
                runSim([config EXCEPT !.tMax = tMax]))
\* lines 177-181
SetWindowType ==
  \E wt \in WindowTypeInputs :
    /\ entry' = "setWindowType"
    /\ StoreSet([config EXCEPT !.windowType = wt],
                runSim([config EXCEPT !.windowType = wt]))
\* lines 183-187
SetWindowP ==
  \E wP \in WindowPInputs :
    /\ entry' = "setWindowP"
    /\ StoreSet([config EXCEPT !.windowP = wP],
                runSim([config EXCEPT !.windowP = wP]))
\* lines 189-193
SetWindowJ ==
  \E wJ \in WindowJInputs :
    /\ entry' = "setWindowJ"
    /\ StoreSet([config EXCEPT !.windowJ = wJ],
                runSim([config EXCEPT !.windowJ = wJ]))
\* lines 195-209
LoadPreset ==
  \E p \in PresetInputs :
    /\ entry' = "loadPreset"
    /\ StoreSet(PresetState(p), runSim(PresetState(p)))
\* lines 211-214
RunSimulation ==
  /\ entry' = "runSimulation"
  /\ StoreSet(config, runSim(config))
\* lines 216-219: loadPreset(PRESETS[0])
ResetToDefaults ==
  /\ entry' = "resetToDefaults"
  /\ StoreSet(PresetState(PRESETS[1]), runSim(PresetState(PRESETS[1])))

StoreNext ==
  \/ SetModel
  \/ SetModelParam
  \/ SetSignalType
  \/ SetSignalParam
  \/ SetX0
  \/ SetTMax
  \/ SetWindowType
  \/ SetWindowP
  \/ SetWindowJ
  \/ LoadPreset
  \/ RunSimulation
  \/ ResetToDefaults

StoreSpec == StoreInit /\ [][StoreNext]_vars

\* C28: after every action of the store, in any order, the stored result and
\* error are the outcome of running the simulation on the configuration
\* fields stored at that moment, and exactly one of the two is not null
C28_ResultIsCurrent ==
  /\ result = runSim(config).result
  /\ error = runSim(config).error
  /\ (result = <<>>) # (error = <<>>)
C28_Witness ==
  /\ entry = "setModelParam" /\ pc = "returned"
  /\ config.modelId = "yakopcic" /\ config.modelParams.eta = I(-1)
  /\ config.x0 = Dec(5, -1) /\ config.signalType = "triangle"
  /\ result # <<>> /\ error = <<>>
  /\ result[1].solved.f.params.eta = I(-1)
  /\ result[1].solved.x0 = Dec(5, -1)

====
